---------------------------- MODULE Spec2Model ----------------------------
(* A model of src/index.py: the bank parser (read_questions_from_file)     *)
(* with the handler that calls it (load_file), the version generator      *)
(* (generate_versions), the formatter (format_question) and the display   *)
(* and export of versions (generate_exams, save_exams_to_directory,       *)
(* _write_exam_file, save_exams_combined), and the session of the window   *)
(* in which load_file, generate_exams and save_exams follow one another.   *)
(*                                                                         *)
(* Text is a sequence of one-character strings (a letter with an accent is *)
(* one element, spelt in ASCII); a question handed to the generator is     *)
(* named by its position in the list `questions` (a Python reference to    *)
(* the dict object at that position).                                      *)
EXTENDS Integers, Sequences, FiniteSets, TLC

VARIABLES
    \* ---- read_questions_from_file ------------------------------------
    raw,            \* the file: its text cut at every newline
    lines,          \* the stripped lines that are not blank
    lineIdx,        \* position of the loop over lines
    parsed,         \* the local list `questions` the function returns
    origin,         \* for each record of parsed, the position in lines it
                    \* was read from (kept for the properties only)
    ioError,        \* the except branch was taken: the file could not be read
    ppc,            \* where read_questions_from_file stands
    \* ---- generate_versions -------------------------------------------
    questions,      \* the list passed in: a sequence of [level, type]
    N,              \* number of versions asked for
    req_level,      \* per-level quota, a function on LEVELS
    req_mcq,        \* overall MCQ quota
    req_essay,      \* overall ESSAY quota
    bank,           \* bank[lev][typ]: sequence of positions in questions
    versions,       \* the versions finished so far
    selected,       \* the version under construction
    remain_mcq,
    remain_essay,
    levIdx,         \* position of the level loop, 1..4
    gpc,            \* where generate_versions stands
    \* ---- the window --------------------------------------------------
    dialogs,        \* the message boxes shown so far, in order
    loaded_questions,   \* the global list load_file fills
    text_display,   \* the text of the display widget
    status,         \* the text of the status bar
    current_filename,   \* the path of the bank loaded last
    \* ---- format_question ---------------------------------------------
    fq,             \* the record passed in
    findex,         \* the number passed in
    show_answers,
    show_hints,
    fout,           \* the string returned
    fpc,
    \* ---- export ------------------------------------------------------
    exams,          \* the versions to show and save: sequences of records
    DOCX_AVAILABLE, \* python-docx could be imported
    as_docx,        \* the files asked for are Word files
    saveIdx,        \* position of the loop of save_exams_to_directory
    saved_files,    \* the list save_exams_to_directory returns
    disk,           \* the files written: path |-> content
    result,         \* what save_exams_combined returned
    attempts,       \* the calls of _write_exam_file made by the loop, each
                    \* with its path and outcome (kept for the properties)
    epc,            \* where the export stands
    \* ---- the session: the handlers called one after the other -------
    generated_versions, \* self.generated_versions: the versions made last
    clicks          \* the number of handler calls made so far

gvars == <<questions, N, req_level, req_mcq, req_essay, bank, versions,
           selected, remain_mcq, remain_essay, levIdx, gpc>>

pvars == <<raw, lines, lineIdx, parsed, origin, ioError, ppc>>

avars == <<dialogs, loaded_questions, text_display, status, current_filename>>

fvars == <<fq, findex, show_answers, show_hints, fout, fpc>>

evars == <<exams, DOCX_AVAILABLE, as_docx, saveIdx, saved_files, disk, result,
           attempts, epc>>

svars == <<generated_versions, clicks>>

vars == <<pvars, gvars, avars, fvars, evars, svars>>

-----------------------------------------------------------------------------
(* Bounds of the model.                                                    *)
MaxBank == 3        \* longest list of questions handed to a one-version call
MaxBankMulti == 2   \* longest list handed to a call for several versions
MaxLines == 2       \* most lines of a bank file
MaxIndex == 2       \* largest question number handed to format_question
MaxExams == 2       \* most versions shown and saved at once

(* The level loop's fixed order, and the two types.                        *)
LEVELS == <<"NB", "TH", "VD", "VDH">>
LevelSet == {LEVELS[i] : i \in 1..Len(LEVELS)}
TypeSet == {"MCQ", "ESSAY"}

-----------------------------------------------------------------------------
(* Python helpers.                                                         *)

Min2(a, b) == IF a <= b THEN a ELSE b
Min3(a, b, c) == Min2(a, Min2(b, c))
Max2(a, b) == IF a >= b THEN a ELSE b

\* s[:k] of Python: a negative k counts from the end.
SliceTo(s, k) ==
    IF k >= 0 THEN SubSeq(s, 1, Min2(k, Len(s)))
    ELSE SubSeq(s, 1, Max2(0, Len(s) + k))

\* s[k:] of Python, k >= 0.
SliceFrom(s, k) == SubSeq(s, Min2(k, Len(s)) + 1, Len(s))

\* Every order random.shuffle can leave the list in.
Shuffles(s) ==
    {[i \in 1..Len(s) |-> s[p[i]]] : p \in Permutations(1..Len(s))}

Range(s) == {s[i] : i \in 1..Len(s)}

\* the sequences over S of length at most n
RECURSIVE SeqsUpTo(_, _)
SeqsUpTo(S, n) ==
    IF n = 0 THEN {<<>>}
    ELSE LET shorter == SeqsUpTo(S, n - 1)
         IN  shorter \cup {Append(s, x) : s \in {t \in shorter : Len(t) = n - 1}, x \in S}

-----------------------------------------------------------------------------
(* Text.  A string is a sequence of characters, a character a one-letter   *)
(* string.  Three characters outside ASCII are written with two letters:   *)
(* "d^" (d with stroke), "a^" (a with acute) and "--" (the en dash).       *)

LowerLetters == <<"a", "b", "c", "d", "e", "f", "g", "h", "i", "j", "k", "l", "m",
                  "n", "o", "p", "q", "r", "s", "t", "u", "v", "w", "x", "y", "z">>
UpperLetters == <<"A", "B", "C", "D", "E", "F", "G", "H", "I", "J", "K", "L", "M",
                  "N", "O", "P", "Q", "R", "S", "T", "U", "V", "W", "X", "Y", "Z">>

\* str.upper on one character
UpperChar(c) ==
    IF \E k \in 1..Len(LowerLetters) : LowerLetters[k] = c
    THEN UpperLetters[CHOOSE k \in 1..Len(LowerLetters) : LowerLetters[k] = c]
    ELSE IF c = "d^" THEN "D^" ELSE IF c = "a^" THEN "A^" ELSE c

Upper(s) == [i \in 1..Len(s) |-> UpperChar(s[i])]

RECURSIVE LStripSet(_, _)
LStripSet(s, cs) ==
    IF s # <<>> /\ Head(s) \in cs THEN LStripSet(Tail(s), cs) ELSE s

RECURSIVE RStripSet(_, _)
\* str.rstrip(chars)
RStripSet(s, cs) ==
    IF s # <<>> /\ s[Len(s)] \in cs THEN RStripSet(SubSeq(s, 1, Len(s) - 1), cs) ELSE s

\* str.strip()
Strip(s) == RStripSet(LStripSet(s, {" ", "\t"}), {" ", "\t"})

\* str.startswith
StartsWith(s, pat) == Len(s) >= Len(pat) /\ SubSeq(s, 1, Len(pat)) = pat

\* str.endswith
EndsWith(s, pat) ==
    Len(s) >= Len(pat) /\ SubSeq(s, Len(s) - Len(pat) + 1, Len(s)) = pat

\* pat in s
Contains(s, pat) ==
    \E k \in 0..(Len(s) - Len(pat)) : SubSeq(s, k + 1, k + Len(pat)) = pat

HasChar(s, c) == \E k \in 1..Len(s) : s[k] = c

RECURSIVE SplitAcc(_, _, _, _)
\* the pieces of s between the characters of seps, empty pieces kept
SplitAcc(s, seps, cur, acc) ==
    IF s = <<>> THEN Append(acc, cur)
    ELSE IF Head(s) \in seps THEN SplitAcc(Tail(s), seps, <<>>, Append(acc, cur))
    ELSE SplitAcc(Tail(s), seps, Append(cur, Head(s)), acc)

\* str.split(c) for a one-character c, re.split for a class of characters
SplitOn(s, seps) == SplitAcc(s, seps, <<>>, <<>>)

\* str.split(pat)[0]: what stands before the first pat, all of s without one
BeforeFirst(s, pat) ==
    IF Contains(s, pat)
    THEN LET k == CHOOSE k \in 0..(Len(s) - Len(pat)) :
                     /\ SubSeq(s, k + 1, k + Len(pat)) = pat
                     /\ \A j \in 0..(k - 1) : SubSeq(s, j + 1, j + Len(pat)) # pat
         IN  SubSeq(s, 1, k)
    ELSE s

RECURSIVE JoinFrom(_, _, _)
JoinFrom(parts, sep, i) ==
    IF i > Len(parts) THEN <<>>
    ELSE IF i = Len(parts) THEN parts[i]
    ELSE parts[i] \o sep \o JoinFrom(parts, sep, i + 1)

\* sep.join(parts)
Join(parts, sep) == JoinFrom(parts, sep, 1)

Digits == <<"0", "1", "2", "3", "4", "5", "6", "7", "8", "9">>

RECURSIVE Decimal(_)
\* str(n), n >= 0
Decimal(n) ==
    IF n < 10 THEN <<Digits[n + 1]>>
    ELSE Append(Decimal(n \div 10), Digits[(n % 10) + 1])

RECURSIVE ZeroPad(_, _)
\* the format {n:0wd}
ZeroPad(s, w) == IF Len(s) >= w THEN s ELSE ZeroPad(<<"0">> \o s, w)


-----------------------------------------------------------------------------
(* read_questions_from_file: the two local helpers.                        *)

OptionLetters == {"A", "B", "C", "D", "a", "b", "c", "d"}

\* re.sub(r'^[A-Da-d]\s*[\.|\)]\s*', '', s): inside the class the bar is a
\* plain character, so the label ends with a period, a bar or a ")".
StripLabel(s) ==
    IF s # <<>> /\ Head(s) \in OptionLetters
    THEN LET r == LStripSet(Tail(s), {" ", "\t"})
         IN  IF r # <<>> /\ Head(r) \in {".", "|", ")"}
             THEN LStripSet(Tail(r), {" ", "\t"})
             ELSE s
    ELSE s

\* the braces removed when the stripped text starts with { and ends with }
StripBraces(s) ==
    IF StartsWith(s, <<"{">>) /\ EndsWith(s, <<"}">>)
    THEN Strip(SubSeq(s, 2, Len(s) - 1))
    ELSE s

clean_opt(s) == Strip(StripLabel(StripBraces(Strip(s))))

RECURSIVE CleanNonBlank(_, _)
\* [clean_opt(p) for p in parts if p.strip()]
CleanNonBlank(parts, i) ==
    IF i > Len(parts) THEN <<>>
    ELSE IF Strip(parts[i]) # <<>>
         THEN <<clean_opt(parts[i])>> \o CleanNonBlank(parts, i + 1)
         ELSE CleanNonBlank(parts, i + 1)

split_combined_options(s) == CleanNonBlank(SplitOn(s, {";", "|", ","}), 1)

\* re.match(r'^[A-Da-d]$', t)
IsAnswerLetter(t) == Len(t) = 1 /\ t[1] \in OptionLetters

-----------------------------------------------------------------------------
(* read_questions_from_file: one line.                                     *)

EmptyOptions == <<<<>>, <<>>, <<>>, <<>>>>

\* 'Chua xac dinh', the subject given to a manual line (accents dropped)
ManualSubject == <<"C", "h", "u", "a", " ", "x", "a", "c", " ", "d", "i", "n", "h">>

\* '(dap an', the start of the trailing annotation of a manual line
AnswerNote == <<"(", "d^", "a^", "p", " ", "a^", "n">>

\* a slip: `or` for `and` in the test of the manual branch
IsFreeForm_Or(line) == ~StartsWith(line, <<"Q">>) \/ ~HasChar(line, "|")

\* the line is left to the manual branch: not a Q line and no separator
IsFreeForm(line) == ~StartsWith(line, <<"Q">>) /\ ~HasChar(line, "|")

HasParens(line) == HasChar(line, "(") /\ HasChar(line, ")")

\* f"MANUAL{n:03d}"
ManualId(n) == <<"M", "A", "N", "U", "A", "L">> \o ZeroPad(Decimal(n), 3)

\* 'MCQ' if any of 'A.', 'B.', 'C.', 'D.' is in the text
ManualType(question_text) ==
    IF \E c \in {"A", "B", "C", "D"} : Contains(question_text, <<c, ".">>)
    THEN "MCQ" ELSE "ESSAY"

\* the record of a manual line, n questions being parsed before it
ManualRecord(line, n) ==
    LET level_part == Upper(Strip(SplitOn(SplitOn(line, {"("})[2], {")"})[1]))
        question_text ==
            RStripSet(Strip(BeforeFirst(SplitOn(line, {")"})[2], AnswerNote)),
                      {" ", "--", "-"})
    IN  [id |-> ManualId(n + 1),
         level |-> level_part,
         type |-> ManualType(question_text),
         subject |-> ManualSubject,
         question |-> question_text,
         options |-> EmptyOptions,
         answer |-> <<>>,
         hint |-> <<>>]

\* a slip: the short form TL forgotten
ResolveType_EssayOnly(qtype_raw) ==
    IF Contains(qtype_raw, <<"E", "S", "S", "A", "Y">>) THEN "ESSAY" ELSE "MCQ"

\* 'ESSAY' if 'ESSAY' in qtype_raw or 'TL' in qtype_raw else 'MCQ'
ResolveType(qtype_raw) ==
    IF Contains(qtype_raw, <<"E", "S", "S", "A", "Y">>) \/ Contains(qtype_raw, <<"T", "L">>)
    THEN "ESSAY" ELSE "MCQ"

\* a slip: `>` for `>=` in the test of the explicit form
IsExplicitFour_More(tail) ==
    Len(tail) > 4 /\ \E k \in 1..4 : tail[k] # <<>>

\* Case 1 applies: len(tail) >= 4 and any(tail[:4])
IsExplicitFour(tail) ==
    Len(tail) >= 4 /\ \E k \in 1..4 : tail[k] # <<>>

\* opts = [clean_opt(x) for x in tail[:4]]
ExplicitOptions(tail) == [k \in 1..4 |-> clean_opt(tail[k])]

ExplicitAnswer(tail) ==
    IF Len(tail) >= 5 /\ Strip(tail[5]) # <<>> THEN Strip(tail[5]) ELSE <<>>

ExplicitHint(tail) ==
    IF Len(tail) >= 6 THEN Strip(Join(SliceFrom(tail, 5), <<" ">>)) ELSE <<>>

\* the text the combined options are split from
OptSource(tail) ==
    IF IsAnswerLetter(Strip(tail[Len(tail)]))
    THEN Join(SubSeq(tail, 1, Len(tail) - 1), <<" ", "|", " ">>)
    ELSE Join(tail, <<" ", "|", " ">>)

\* a slip: every candidate kept, the extras not dropped
CombinedOptions_KeepAll(tail) ==
    LET found_opts == split_combined_options(OptSource(tail))
    IN  IF Len(found_opts) > 4 THEN found_opts
        ELSE [k \in 1..4 |-> IF k <= Len(found_opts) THEN found_opts[k] ELSE <<>>]

\* for i in range(min(4, len(found_opts))): opts[i] = found_opts[i]
CombinedOptions(tail) ==
    LET found_opts == split_combined_options(OptSource(tail))
    IN  [k \in 1..4 |-> IF k <= Len(found_opts) THEN found_opts[k] ELSE <<>>]

\* re.search(r'\|?\s*([A-Da-d])\s*$', line): the letter, when the last
\* character of the line that is not white space is one of A-D, a-d
LineEndLetter(line) ==
    LET r == RStripSet(line, {" ", "\t"})
    IN  IF r # <<>> /\ r[Len(r)] \in OptionLetters THEN <<r[Len(r)]>> ELSE <<>>

\* the first token of the tail that is a bare letter, or nothing
FirstLetterToken(tail) ==
    IF \E k \in 1..Len(tail) : IsAnswerLetter(Strip(tail[k]))
    THEN Strip(tail[CHOOSE k \in 1..Len(tail) :
                        /\ IsAnswerLetter(Strip(tail[k]))
                        /\ \A j \in 1..(k - 1) : ~IsAnswerLetter(Strip(tail[j]))])
    ELSE <<>>

\* the answer of the combined case, tail not empty
CombinedAnswer(tail, line) ==
    LET last == Strip(tail[Len(tail)])
    IN  IF IsAnswerLetter(last) THEN Upper(last)
        ELSE \* if not answer: the scan of the tail, then the end of the line
             IF LineEndLetter(line) # <<>> THEN Upper(LineEndLetter(line))
             ELSE Upper(FirstLetterToken(tail))

\* the hint of the combined case, tail not empty
CombinedHint(tail, answer) ==
    IF Len(tail) > (IF answer # <<>> THEN 1 ELSE 0)
    THEN IF answer = <<>> THEN Strip(tail[Len(tail)])
         ELSE Strip(Join(SliceFrom(tail, 1), <<" ">>))
    ELSE <<>>

\* the record of a structured line of at least 5 parts
StructuredRecord(line) ==
    LET parts == SplitOn(line, {"|"})
        qtype == ResolveType(Upper(Strip(parts[3])))
        tail == SliceFrom(parts, 5)
        explicit == IsExplicitFour(tail)
        answer == IF qtype # "MCQ" \/ tail = <<>> THEN <<>>
                  ELSE IF explicit THEN ExplicitAnswer(tail)
                  ELSE CombinedAnswer(tail, line)
    IN  [id |-> Strip(parts[1]),
         level |-> Upper(Strip(parts[2])),
         type |-> qtype,
         subject |-> Strip(parts[4]),
         question |-> Strip(parts[5]),
         options |-> IF qtype # "MCQ" \/ tail = <<>> THEN EmptyOptions
                     ELSE IF explicit THEN ExplicitOptions(tail)
                     ELSE CombinedOptions(tail),
         answer |-> answer,
         hint |-> IF qtype # "MCQ" THEN Strip(Join(tail, <<" ">>))
                  ELSE IF tail = <<>> THEN <<>>
                  ELSE IF explicit THEN ExplicitHint(tail)
                  ELSE CombinedHint(tail, answer)]


-----------------------------------------------------------------------------
(* format_question.                                                        *)

\* chr(65 + i) for the four option slots
OptionLabels == <<"A", "B", "C", "D">>

\* 'Cau ' of the first line
QuestionLabel == <<"C", "a~", "u", " ">>

\* '  Dap an: ' of the answer line
AnswerLabel == <<" ", " ", "D^", "a^", "p", " ", "a^", "n", ":", " ">>

\* '  Goi y: ' of the hint line
HintLabel == <<" ", " ", "G", "o~", "i", " ", "y^", ":", " ">>

\* f"Cau {index}: [{q['level']}] {q['question']}"
QuestionHead(q, index) ==
    QuestionLabel \o Decimal(index) \o <<":", " ", "[">> \o q.level
                  \o <<"]", " ">> \o q.question

RECURSIVE OptionLines(_, _)
\* for i, opt in enumerate(q['options']): if opt.strip(): '  X. opt'
OptionLines(opts, i) ==
    IF i > Len(opts) THEN <<>>
    ELSE (IF Strip(opts[i]) # <<>>
          THEN <<(<<" ", " ", OptionLabels[i], ".", " ">> \o opts[i])>>
          ELSE <<>>) \o OptionLines(opts, i + 1)

\* q['type'] == 'MCQ' and any(q['options'])
HasOptions(q) ==
    q.type = "MCQ" /\ \E i \in 1..Len(q.options) : q.options[i] # <<>>

\* a slip: the flag of the answer line not looked at
AnswerShown_Always(q, show) == q.answer # <<>>

\* show_answers and q.get('answer')
AnswerShown(q, show) == show /\ q.answer # <<>>

\* show_hints and q.get('hint')
HintShown(q, show) == show /\ q.hint # <<>>

format_question(q, index, answers, hints) ==
    LET head == <<QuestionHead(q, index)>>
        body == IF HasOptions(q)
                THEN OptionLines(q.options, 1) \o
                     (IF AnswerShown(q, answers)
                      THEN <<AnswerLabel \o q.answer>> ELSE <<>>)
                ELSE <<>>
        foot == IF HintShown(q, hints) THEN <<HintLabel \o q.hint>> ELSE <<>>
    IN  Join(head \o body \o foot, <<"\n">>)

\* c * n
Repeat(c, n) == [i \in 1..n |-> c]

\* [q for q in ver if type is MCQ] + [q for q in ver if type is ESSAY]
Ordered(ver) ==
    SelectSeq(ver, LAMBDA q : q.type = "MCQ") \o
    SelectSeq(ver, LAMBDA q : q.type = "ESSAY")

\* how many records of a list are multiple-choice
McqCount(qs) == Len(SelectSeq(qs, LAMBDA q : q.type = "MCQ"))

-----------------------------------------------------------------------------
(* read_questions_from_file as a state machine.                            *)

RECURSIVE NonBlankStripped(_, _)
\* [line.strip() for line in content.split('\n') if line.strip()]
NonBlankStripped(rs, i) ==
    IF i > Len(rs) THEN <<>>
    ELSE IF Strip(rs[i]) # <<>>
         THEN <<Strip(rs[i])>> \o NonBlankStripped(rs, i + 1)
         ELSE NonBlankStripped(rs, i + 1)

\* len(parts) < 5: continue
TooFewParts(parts) == Len(parts) < 5

\* open() or read() raises: the except branch reports it, [] is returned
OpenFails ==
    /\ ppc = "open"
    /\ ioError' = TRUE
    /\ dialogs' = Append(dialogs, "showerror: Loi doc file")
    /\ ppc' = "done"
    /\ UNCHANGED <<raw, lines, lineIdx, parsed, origin>>
    /\ UNCHANGED <<loaded_questions, text_display, status, current_filename>>
    /\ UNCHANGED <<gvars, fvars, evars, svars>>

\* content = f.read().strip(); lines = [...]
ReadLines ==
    /\ ppc = "open"
    /\ lines' = NonBlankStripped(raw, 1)
    /\ lineIdx' = 1
    /\ ppc' = "loop"
    /\ UNCHANGED <<raw, parsed, origin, ioError>>
    /\ UNCHANGED <<gvars, avars, fvars, evars, svars>>

\* a free-form line without both parentheses: continue
SkipFreeForm ==
    /\ ppc = "loop" /\ lineIdx <= Len(lines)
    /\ IsFreeForm(lines[lineIdx])
    /\ ~HasParens(lines[lineIdx])
    /\ lineIdx' = lineIdx + 1
    /\ UNCHANGED <<raw, lines, parsed, origin, ioError, ppc>>
    /\ UNCHANGED <<gvars, avars, fvars, evars, svars>>

\* a free-form line with both parentheses: a manual record, then continue
ManualLine ==
    /\ ppc = "loop" /\ lineIdx <= Len(lines)
    /\ IsFreeForm(lines[lineIdx])
    /\ HasParens(lines[lineIdx])
    /\ parsed' = Append(parsed, ManualRecord(lines[lineIdx], Len(parsed)))
    /\ origin' = Append(origin, lineIdx)
    /\ lineIdx' = lineIdx + 1
    /\ UNCHANGED <<raw, lines, ioError, ppc>>
    /\ UNCHANGED <<gvars, avars, fvars, evars, svars>>

\* a line with fewer than 5 parts: continue
SkipShort ==
    /\ ppc = "loop" /\ lineIdx <= Len(lines)
    /\ ~IsFreeForm(lines[lineIdx])
    /\ TooFewParts(SplitOn(lines[lineIdx], {"|"}))
    /\ lineIdx' = lineIdx + 1
    /\ UNCHANGED <<raw, lines, parsed, origin, ioError, ppc>>
    /\ UNCHANGED <<gvars, avars, fvars, evars, svars>>

\* a structured line: its record appended
StructuredLine ==
    /\ ppc = "loop" /\ lineIdx <= Len(lines)
    /\ ~IsFreeForm(lines[lineIdx])
    /\ ~TooFewParts(SplitOn(lines[lineIdx], {"|"}))
    /\ parsed' = Append(parsed, StructuredRecord(lines[lineIdx]))
    /\ origin' = Append(origin, lineIdx)
    /\ lineIdx' = lineIdx + 1
    /\ UNCHANGED <<raw, lines, ioError, ppc>>
    /\ UNCHANGED <<gvars, avars, fvars, evars, svars>>

\* return questions
ReturnQuestions ==
    /\ ppc = "loop" /\ lineIdx > Len(lines)
    /\ ppc' = "done"
    /\ UNCHANGED <<raw, lines, lineIdx, parsed, origin, ioError>>
    /\ UNCHANGED <<gvars, avars, fvars, evars, svars>>

\* The lines a bank file is made of.
InputLines == {
    \* 'Q1|NB|MCQ|S|q|4|3|5|6|A'
    <<"Q", "1", "|", "N", "B", "|", "M", "C", "Q", "|", "S", "|", "q",
      "|", "4", "|", "3", "|", "5", "|", "6", "|", "A">>,
    \* 'Q2|TH|MCQ|S|q|x; y; z|B'
    <<"Q", "2", "|", "T", "H", "|", "M", "C", "Q", "|", "S", "|", "q",
      "|", "x", ";", " ", "y", ";", " ", "z", "|", "B">>,
    \* 'Q3|VD|ESSAY|S|q|some note'
    <<"Q", "3", "|", "V", "D", "|", "E", "S", "S", "A", "Y", "|", "S",
      "|", "q", "|", "s", "o", "m", "e", " ", "n", "o", "t", "e">>,
    \* 'Q1|NB|MCQ|S|q|a|b|c'
    <<"Q", "1", "|", "N", "B", "|", "M", "C", "Q", "|", "S", "|", "q",
      "|", "a", "|", "b", "|", "c">>,
    \* 'Q1|NB|MCQ|S|q|a|b|c|d'
    <<"Q", "1", "|", "N", "B", "|", "M", "C", "Q", "|", "S", "|", "q",
      "|", "a", "|", "b", "|", "c", "|", "d">>,
    \* 'Q1|NB|MCQ|S|q|{A. a}|B) b| c |d| c |h1|h2'
    <<"Q", "1", "|", "N", "B", "|", "M", "C", "Q", "|", "S", "|", "q",
      "|", "{", "A", ".", " ", "a", "}", "|", "B", ")", " ", "b", "|", " ",
      "c", " ", "|", "d", "|", " ", "c", " ", "|", "h", "1", "|", "h", "2">>,
    \* 'Q1|NB|MCQ|S|q||||'
    <<"Q", "1", "|", "N", "B", "|", "M", "C", "Q", "|", "S", "|", "q",
      "|", "|", "|", "|">>,
    \* 'Q1|NB|MCQ|S|q|B|x;y'
    <<"Q", "1", "|", "N", "B", "|", "M", "C", "Q", "|", "S", "|", "q",
      "|", "B", "|", "x", ";", "y">>,
    \* 'Q1|NB|MCQ|S|q|x;y|Da'
    <<"Q", "1", "|", "N", "B", "|", "M", "C", "Q", "|", "S", "|", "q",
      "|", "x", ";", "y", "|", "D", "a">>,
    \* 'Q4|NB|MCQ|S|q|D'
    <<"Q", "4", "|", "N", "B", "|", "M", "C", "Q", "|", "S", "|", "q",
      "|", "D">>,
    \* 'Q3|VDH||S|q|a,b,c,d,e|x'
    <<"Q", "3", "|", "V", "D", "H", "|", "|", "S", "|", "q", "|", "a",
      ",", "b", ",", "c", ",", "d", ",", "e", "|", "x">>,
    \* 'Q1|NB|MCQ|S|q'
    <<"Q", "1", "|", "N", "B", "|", "M", "C", "Q", "|", "S", "|", "q">>,
    \* 'Q1|NB|MCQ|S|q| |b|c|d|'
    <<"Q", "1", "|", "N", "B", "|", "M", "C", "Q", "|", "S", "|", "q",
      "|", " ", "|", "b", "|", "c", "|", "d", "|">>,
    \* 'Q1|NB|MCQ|S|q|a;b|c;d;e|h'
    <<"Q", "1", "|", "N", "B", "|", "M", "C", "Q", "|", "S", "|", "q",
      "|", "a", ";", "b", "|", "c", ";", "d", ";", "e", "|", "h">>,
    \* 'Q1|NB|MCQ|S|q|||||A'
    <<"Q", "1", "|", "N", "B", "|", "M", "C", "Q", "|", "S", "|", "q",
      "|", "|", "|", "|", "|", "A">>,
    \* 'Q1|NB|MCQ|S|q|B|x;a'
    <<"Q", "1", "|", "N", "B", "|", "M", "C", "Q", "|", "S", "|", "q",
      "|", "B", "|", "x", ";", "a">>,
    \* 'Q1|NB|MCQ|S|q|(a)|b|c|d'
    <<"Q", "1", "|", "N", "B", "|", "M", "C", "Q", "|", "S", "|", "q",
      "|", "(", "a", ")", "|", "b", "|", "c", "|", "d">>,
    \* 'Q2| vd |essay|S|q|note'
    <<"Q", "2", "|", " ", "v", "d", " ", "|", "e", "s", "s", "a", "y",
      "|", "S", "|", "q", "|", "n", "o", "t", "e">>,
    \* 'Q2|XX|tl|S|q'
    <<"Q", "2", "|", "X", "X", "|", "t", "l", "|", "S", "|", "q">>,
    \* '|TH|Title|S|q'
    <<"|", "T", "H", "|", "T", "i", "t", "l", "e", "|", "S", "|", "q">>,
    \* 'Q3||MCQ|S|q'
    <<"Q", "3", "|", "|", "M", "C", "Q", "|", "S", "|", "q">>,
    \* ' |nb|TN|S|q|a|b|c|d|b'
    <<" ", "|", "n", "b", "|", "T", "N", "|", "S", "|", "q", "|", "a",
      "|", "b", "|", "c", "|", "d", "|", "b">>,
    \* 'Q5|Vdh|tu luan|S|q'
    <<"Q", "5", "|", "V", "d", "h", "|", "t", "u", " ", "l", "u", "a",
      "n", "|", "S", "|", "q">>,
    \* 'Q6|th|essay mcq|S|q|a|b|c|d|A'
    <<"Q", "6", "|", "t", "h", "|", "e", "s", "s", "a", "y", " ", "m",
      "c", "q", "|", "S", "|", "q", "|", "a", "|", "b", "|", "c", "|", "d",
      "|", "A">>,
    \* 'MANUAL001|NB|MCQ|S|q'
    <<"M", "A", "N", "U", "A", "L", "0", "0", "1", "|", "N", "B", "|",
      "M", "C", "Q", "|", "S", "|", "q">>,
    \* 'q7|NB|MCQ|S|q'
    <<"q", "7", "|", "N", "B", "|", "M", "C", "Q", "|", "S", "|", "q">>,
    \* 'Q1|NB|MCQ|S'
    <<"Q", "1", "|", "N", "B", "|", "M", "C", "Q", "|", "S">>,
    \* 'Q1'
    <<"Q", "1">>,
    \* 'x|y'
    <<"x", "|", "y">>,
    \* 'Q (NB) text'
    <<"Q", " ", "(", "N", "B", ")", " ", "t", "e", "x", "t">>,
    \* 'a|b|c|d'
    <<"a", "|", "b", "|", "c", "|", "d">>,
    \* '(NB) q A. x B. y'
    <<"(", "N", "B", ")", " ", "q", " ", "A", ".", " ", "x", " ", "B",
      ".", " ", "y">>,
    \* '1. (xx) q (d^a^p a^n B)'
    <<"1", ".", " ", "(", "x", "x", ")", " ", "q", " ", "(", "d^", "a^",
      "p", " ", "a^", "n", " ", "B", ")">>,
    \* '(TH) q ---'
    <<"(", "T", "H", ")", " ", "q", " ", "--", "-">>,
    \* ') q ('
    <<")", " ", "q", " ", "(">>,
    \* '(VDH)'
    <<"(", "V", "D", "H", ")">>,
    \* 'note'
    <<"n", "o", "t", "e">>,
    \* '(no close'
    <<"(", "n", "o", " ", "c", "l", "o", "s", "e">>,
    \* ''
    <<>>,
    \* '   '
    <<" ", " ", " ">>
    }


-----------------------------------------------------------------------------
(* load_file: what the handler does with the list the parser returned.     *)

\* os.path.basename(path) of the bank chosen
BankName == <<"b", "a", "n", "k", ".", "t", "x", "t">>

RECURSIVE LoadedBlocks(_, _)
\* for i, q in enumerate(questions[:15], 1): format_question(q, i) + 2 newlines
LoadedBlocks(qs, i) ==
    IF i > Len(qs) THEN <<>>
    ELSE format_question(qs[i], i, FALSE, FALSE) \o <<"\n", "\n">>
         \o LoadedBlocks(qs, i + 1)

\* the text load_file puts in the display (a caption is one element)
LoadedText(qs) ==
    LET total == Len(qs)
        mcq_count == McqCount(qs)
    IN  <<"DA TAI THANH CONG FILE:", "\n">> \o BankName \o <<"\n", "\n">>
        \o <<"Tong cong: ">> \o Decimal(total) \o <<" cau hoi", "\n">>
        \o <<"  * Trac nghiem: ">> \o Decimal(mcq_count) \o <<" cau", "\n">>
        \o <<"  * Tu luan: ">> \o Decimal(total - mcq_count)
        \o <<" cau", "\n", "\n">>
        \o <<"Xem truoc 15 cau dau:", "\n">> \o Repeat("-", 50) \o <<"\n">>
        \o LoadedBlocks(SliceTo(qs, 15), 1)
        \o (IF total > 15
            THEN <<"... va ">> \o Decimal(total - 15) \o <<" cau nua.", "\n">>
            ELSE <<>>)

\* if not questions: the warning, and nothing else changes
LoadFileNoData ==
    /\ ppc = "done"
    /\ parsed = <<>>
    /\ dialogs' = Append(dialogs, "showwarning: Khong co du lieu")
    /\ ppc' = "returned"
    /\ UNCHANGED <<raw, lines, lineIdx, parsed, origin, ioError>>
    /\ UNCHANGED <<loaded_questions, text_display, status, current_filename>>
    /\ UNCHANGED <<gvars, fvars, evars, svars>>

\* the list is kept and its first records are shown
LoadFileShow ==
    /\ ppc = "done"
    /\ parsed # <<>>
    /\ loaded_questions' = parsed
    /\ current_filename' = BankName
    /\ text_display' = LoadedText(parsed)
    /\ status' = <<"Da tai ">> \o Decimal(Len(parsed)) \o <<" cau hoi">>
    /\ ppc' = "returned"
    /\ UNCHANGED <<raw, lines, lineIdx, parsed, origin, ioError, dialogs>>
    /\ UNCHANGED <<gvars, fvars, evars, svars>>

-----------------------------------------------------------------------------
(* generate_exams: the display of the versions.                            *)

RECURSIVE ShownBlocks(_, _)
\* for j, q in enumerate(ordered, 1): format_question(q, j), a newline, the
\* attachments of the record (images_map is empty: none), a newline
ShownBlocks(qs, j) ==
    IF j > Len(qs) THEN <<>>
    ELSE format_question(qs[j], j, FALSE, FALSE) \o <<"\n">> \o <<"\n">>
         \o ShownBlocks(qs, j + 1)

RECURSIVE ShownVersions(_, _)
\* for i, ver in enumerate(versions, 1): caption, rule, questions, rule
ShownVersions(vs, i) ==
    IF i > Len(vs) THEN <<>>
    ELSE LET actual_total == Len(vs[i])
             actual_mcq == McqCount(vs[i])
         IN  <<"MA DE ">> \o Decimal(i) \o <<" (">> \o Decimal(actual_total)
             \o <<" cau: ">> \o Decimal(actual_mcq) \o <<" TN + ">>
             \o Decimal(actual_total - actual_mcq) \o <<" TL)", "\n">>
             \o Repeat("-", 60) \o <<"\n">>
             \o ShownBlocks(Ordered(vs[i]), 1)
             \o <<"\n">> \o Repeat("=", 80) \o <<"\n", "\n">>
             \o ShownVersions(vs, i + 1)

\* the text generate_exams puts in the display; the two numbers of the
\* heading are read from the spin boxes and stand as one element each
ShownText(vs) ==
    <<"HOAN THANH! DA TAO THANH CONG ", "{N}", " MA DE", "\n">>
    \o <<"Moi de co khoang ", "{total_per_exam}",
         " cau (co the thay doi nhe neu thieu cau)", "\n", "\n">>
    \o Repeat("=", 80) \o <<"\n", "\n">>
    \o ShownVersions(vs, 1)

\* the versions returned by generate_versions are shown
ShowVersions ==
    /\ epc = "generated"
    /\ text_display' = ShownText(exams)
    /\ status' = <<"Da tao ", "{N}", " ma de">>
    /\ epc' = "shown"
    /\ UNCHANGED <<dialogs, loaded_questions, current_filename>>
    /\ UNCHANGED <<exams, DOCX_AVAILABLE, as_docx, saveIdx, saved_files, disk,
                   result, attempts>>
    /\ UNCHANGED <<pvars, gvars, fvars, svars>>

-----------------------------------------------------------------------------
(* _write_exam_file: what it writes. images_map is empty (no attachment    *)
(* has been registered), so copied_map is empty in every call.             *)

RECURSIVE ExportBlocks(_, _, _)
\* for q_idx, q in enumerate(qs, 1): format_question(...) followed by tail
ExportBlocks(qs, q_idx, tail) ==
    IF q_idx > Len(qs) THEN <<>>
    ELSE format_question(qs[q_idx], q_idx, TRUE, TRUE) \o tail
         \o ExportBlocks(qs, q_idx + 1, tail)

\* the text file of one version: heading, then the ordered questions
ExamText(exam, idx) ==
    <<"MA DE ">> \o idx \o <<" -- Tao luc ", "{now}", "\n", "\n">>
    \o ExportBlocks(Ordered(exam), 1, <<"\n", "\n">>)

RECURSIVE DocxOptions(_, _)
\* the option paragraphs of a cell: f"{chr(65+i)}. {opt}"
DocxOptions(opts, i) ==
    IF i > Len(opts) THEN <<>>
    ELSE (IF Strip(opts[i]) # <<>>
          THEN <<(<<OptionLabels[i], ".", " ">> \o opts[i])>>
          ELSE <<>>) \o DocxOptions(opts, i + 1)

\* the paragraphs of the left cell of one question, then the empty
\* paragraph after the table; the hint only in the file of one version
DocxQuestion(q, q_idx, first, with_hint) ==
    first
    \o <<QuestionHead(q, q_idx)>>
    \o (IF HasOptions(q) THEN DocxOptions(q.options, 1) ELSE <<>>)
    \o (IF q.answer # <<>>
        THEN <<(<<"D^", "a^", "p", " ", "a^", "n", ":", " ">> \o q.answer)>>
        ELSE <<>>)
    \o (IF with_hint /\ q.hint # <<>>
        THEN <<(<<"G", "o~", "i", " ", "y^", ":", " ">> \o q.hint)>>
        ELSE <<>>)
    \o << <<>> >>

RECURSIVE DocxQuestions(_, _, _, _)
DocxQuestions(qs, q_idx, first, with_hint) ==
    IF q_idx > Len(qs) THEN <<>>
    ELSE DocxQuestion(qs[q_idx], q_idx, first, with_hint)
         \o DocxQuestions(qs, q_idx + 1, first, with_hint)

\* the paragraphs of the Word file of one version
ExamDocx(exam, idx) ==
    << (<<"MA DE ">> \o idx), <<"Tao luc ", "{now}">> >>
    \o DocxQuestions(Ordered(exam), 1, <<>>, TRUE)

-----------------------------------------------------------------------------
(* save_exams_to_directory.                                                *)

Alphabet ==
    <<"A", "B", "C", "D", "E", "F", "G", "H", "I", "J", "K", "L", "M",
      "N", "O", "P", "Q", "R", "S", "T", "U", "V", "W", "X", "Y", "Z">>

\* chr(64 + i) if i <= 26 else str(i)
Suffix(i) == IF i <= 26 THEN <<Alphabet[i]>> ELSE Decimal(i)

\* os.path.splitext(name)[0]: the name up to its last period
Stem(name) ==
    IF \E k \in 2..Len(name) : name[k] = "."
    THEN SubSeq(name, 1, (CHOOSE k \in 2..Len(name) :
                            /\ name[k] = "."
                            /\ \A j \in (k + 1)..Len(name) : name[j] # ".") - 1)
    ELSE name

\* the name before the suffix: the stem of the bank, or de_thi_{timestamp}
BaseName(source_filename) ==
    IF source_filename # <<>> THEN Stem(source_filename)
    ELSE <<"d", "e", "_", "t", "h", "i", "_", "{timestamp}">>

\* os.path.join(target_dir, f"{base_name}_de_{suffix}_{timestamp}{ext}")
ExamPath(source_filename, i, docx) ==
    <<"{target_dir}", "/">> \o BaseName(source_filename)
    \o <<"_", "d", "e", "_">> \o Suffix(i) \o <<"_", "{timestamp}">>
    \o (IF docx THEN <<".", "d", "o", "c", "x">> ELSE <<".", "t", "x", "t">>)

\* a slip: the path kept without a look at ok
SavedAfter_Always(saved, ok, path) == Append(saved, path)

\* if ok: saved_files.append(path)
SavedAfter(saved, ok, path) == IF ok THEN Append(saved, path) ELSE saved

\* the call: the images folder is made, the loop starts
EnterSaveToDirectory ==
    /\ epc = "shown"
    /\ as_docx' \in BOOLEAN
    /\ saved_files' = <<>>
    /\ saveIdx' = 1
    /\ attempts' = <<>>
    /\ epc' = "dirloop"
    /\ UNCHANGED <<exams, DOCX_AVAILABLE, disk, result>>
    /\ UNCHANGED <<pvars, gvars, avars, fvars, svars>>

\* os.makedirs raises: the call ends with the exception
MakeDirsFails ==
    /\ epc = "shown"
    /\ epc' = "raised"
    /\ UNCHANGED <<exams, DOCX_AVAILABLE, as_docx, saveIdx, saved_files, disk,
                   result, attempts>>
    /\ UNCHANGED <<pvars, gvars, avars, fvars, svars>>

\* one turn of the loop in which _write_exam_file returns True
WriteExamOk ==
    /\ epc = "dirloop" /\ saveIdx <= Len(exams)
    /\ as_docx => DOCX_AVAILABLE
    /\ LET path == ExamPath(current_filename, saveIdx, as_docx)
           content == IF as_docx
                      THEN [kind |-> "docx",
                            body |-> ExamDocx(exams[saveIdx], Suffix(saveIdx))]
                      ELSE [kind |-> "txt",
                            body |-> ExamText(exams[saveIdx], Suffix(saveIdx))]
       IN  /\ disk' = (path :> content) @@ disk
           /\ saved_files' = SavedAfter(saved_files, TRUE, path)
           /\ attempts' = Append(attempts, [path |-> path, ok |-> TRUE])
    /\ saveIdx' = saveIdx + 1
    /\ UNCHANGED <<exams, DOCX_AVAILABLE, as_docx, result, epc>>
    /\ UNCHANGED <<pvars, gvars, avars, fvars, svars>>

\* one turn of the loop in which _write_exam_file returns False: python-docx
\* is missing, or opening or saving the file raised and nothing was written
WriteExamFails ==
    /\ epc = "dirloop" /\ saveIdx <= Len(exams)
    /\ LET path == ExamPath(current_filename, saveIdx, as_docx)
       IN  /\ saved_files' = SavedAfter(saved_files, FALSE, path)
           /\ attempts' = Append(attempts, [path |-> path, ok |-> FALSE])
    /\ saveIdx' = saveIdx + 1
    /\ UNCHANGED <<exams, DOCX_AVAILABLE, as_docx, disk, result, epc>>
    /\ UNCHANGED <<pvars, gvars, avars, fvars, svars>>

\* return saved_files
ReturnSaved ==
    /\ epc = "dirloop" /\ saveIdx > Len(exams)
    /\ epc' = "saved"
    /\ UNCHANGED <<exams, DOCX_AVAILABLE, as_docx, saveIdx, saved_files, disk,
                   result, attempts>>
    /\ UNCHANGED <<pvars, gvars, avars, fvars, svars>>

-----------------------------------------------------------------------------
(* save_exams_combined.                                                    *)

\* the two kinds of path the user can give
CombinedPaths ==
    {<<"{out}", ".", "t", "x", "t">>, <<"{out}", ".", "D", "o", "c", "x">>}

\* filepath.lower().endswith('.docx')
IsDocxPath(filepath) == EndsWith(Upper(filepath), <<".", "D", "O", "C", "X">>)

RECURSIVE CombinedVersions(_, _)
\* for idx, exam in enumerate(exams, 1): rules, caption, the questions in
\* the order of the list `exam`, rule
CombinedVersions(vs, idx) ==
    IF idx > Len(vs) THEN <<>>
    ELSE Repeat("=", 50) \o <<"\n">>
         \o <<"MA DE ">> \o Decimal(idx) \o <<"\n">>
         \o Repeat("=", 50) \o <<"\n", "\n">>
         \o ExportBlocks(vs[idx], 1, <<"\n">> \o <<"\n">>)
         \o <<"\n">> \o Repeat("=", 50) \o <<"\n", "\n">>
         \o CombinedVersions(vs, idx + 1)

\* the combined text file
CombinedText(vs) ==
    <<"KET QUA TAO DE THI", "\n">>
    \o <<"Thoi gian: ", "{now}", "\n">>
    \o <<"So ma de: ">> \o Decimal(Len(vs)) \o <<"\n", "\n">>
    \o CombinedVersions(vs, 1)

RECURSIVE CombinedDocxVersions(_, _)
\* page break, heading, then the ordered questions; add_paragraph leaves the
\* first, empty paragraph of the cell in place
CombinedDocxVersions(vs, idx) ==
    IF idx > Len(vs) THEN <<>>
    ELSE << <<"{page break}">>, (<<"MA DE ">> \o Decimal(idx)) >>
         \o DocxQuestions(Ordered(vs[idx]), 1, << <<>> >>, FALSE)
         \o CombinedDocxVersions(vs, idx + 1)

\* the paragraphs of the combined Word file
CombinedDocx(vs) ==
    << <<"KET QUA TAO DE THI">>, <<"Thoi gian: ", "{now}">>,
       (<<"So ma de: ">> \o Decimal(Len(vs))) >>
    \o CombinedDocxVersions(vs, 1)

\* the file is written and its path returned
SaveCombinedOk ==
    /\ epc = "shown"
    /\ \E filepath \in CombinedPaths :
          /\ IsDocxPath(filepath) => DOCX_AVAILABLE
          /\ disk' = (filepath :>
                        (IF IsDocxPath(filepath)
                         THEN [kind |-> "docx", body |-> CombinedDocx(exams)]
                         ELSE [kind |-> "txt", body |-> CombinedText(exams)]))
                     @@ disk
          /\ result' = filepath
    /\ epc' = "combined"
    /\ UNCHANGED <<exams, DOCX_AVAILABLE, as_docx, saveIdx, saved_files, attempts>>
    /\ UNCHANGED <<pvars, gvars, avars, fvars, svars>>

\* python-docx is missing for a Word path, or making the folder, opening
\* or saving raised: None is returned and nothing was written
SaveCombinedFails ==
    /\ epc = "shown"
    /\ result' = <<>>
    /\ epc' = "combined"
    /\ UNCHANGED <<exams, DOCX_AVAILABLE, as_docx, saveIdx, saved_files, disk,
                   attempts>>
    /\ UNCHANGED <<pvars, gvars, avars, fvars, svars>>

-----------------------------------------------------------------------------
(* generate_versions: index construction.                                  *)

\* a slip: the fallback is the last level of the list, not the first
BucketLevel_Last(q) == IF q.level \in LevelSet THEN q.level ELSE "VDH"

\* An unrecognised level falls to NB.
BucketLevel(q) == IF q.level \in LevelSet THEN q.level ELSE "NB"

\* An unrecognised type falls to ESSAY.
BucketType(q) == IF q.type \in TypeSet THEN q.type ELSE "ESSAY"

EmptyBank == [lev \in LevelSet |-> [typ \in TypeSet |-> <<>>]]

RECURSIVE BuildBankFrom(_, _, _)
\* the loop `for q in questions`: position i onwards appended to b
BuildBankFrom(qs, i, b) ==
    IF i > Len(qs) THEN b
    ELSE LET lev == BucketLevel(qs[i])
             typ == BucketType(qs[i])
         IN  BuildBankFrom(qs, i + 1,
                [b EXCEPT ![lev][typ] = Append(b[lev][typ], i)])

BuildBank(qs) == BuildBankFrom(qs, 1, EmptyBank)

-----------------------------------------------------------------------------
(* generate_versions: one version.                                         *)

\* a slip: the MCQ take not capped by remain_mcq
TakeMcq_NoRemainCap(need, rm, poolLen) == Min2(need, poolLen)

TakeMcq(need, rm, poolLen) == Min3(need, rm, poolLen)

\* a slip: the ESSAY take not capped by remain_essay
TakeEssay_NoRemainCap(need, take_mcq, re, poolLen) ==
    Min2(need - take_mcq, poolLen)

TakeEssay(need, take_mcq, re, poolLen) == Min3(need - take_mcq, re, poolLen)

\* [q for lev in bank for q in bank[lev][typ]]: the buckets of one type in
\* the dict's insertion order NB, TH, VD, VDH.
AllOfType(b, typ) ==
    b[LEVELS[1]][typ] \o b[LEVELS[2]][typ] \o b[LEVELS[3]][typ] \o b[LEVELS[4]][typ]

\* a slip: pool[remain:] for pool[:remain]
BackfillTake_FromRemain(pool, remain) == SliceFrom(pool, remain)

\* all_mcq[:remain_mcq] and all_essay[:remain_essay]
BackfillTake(pool, remain) == SliceTo(pool, remain)

\* a slip: the pool is the bucket itself, shuffled in place
BucketAfterShuffle_InPlace(bucket, pool) == pool

\* pool = bucket.copy(); random.shuffle(pool): the shuffle reorders the
\* copy, the bucket of the index keeps its order
BucketAfterShuffle(bucket, pool) == bucket

-----------------------------------------------------------------------------
(* generate_versions as a state machine.                                   *)

\* bank = {...}; for q in questions: ...; versions = []
BuildIndex ==
    /\ gpc = "index"
    /\ bank' = BuildBank(questions)
    /\ versions' = <<>>
    /\ gpc' = "loop"
    /\ UNCHANGED <<pvars, avars, fvars, evars, svars>>
    /\ UNCHANGED <<questions, N, req_level, req_mcq, req_essay, selected,
                   remain_mcq, remain_essay, levIdx>>

\* for _ in range(N): selected = []; remain_mcq = req_mcq; ...
StartVersion ==
    /\ gpc = "loop"
    /\ Len(versions) < N
    /\ selected' = <<>>
    /\ remain_mcq' = req_mcq
    /\ remain_essay' = req_essay
    /\ levIdx' = 1
    /\ gpc' = "level"
    /\ UNCHANGED <<pvars, avars, fvars, evars, svars>>
    /\ UNCHANGED <<questions, N, req_level, req_mcq, req_essay, bank, versions>>

NextLevel ==
    /\ levIdx' = levIdx + 1
    /\ gpc' = IF levIdx = Len(LEVELS) THEN "backfill" ELSE "level"

\* need == 0: continue
LevelSkip ==
    /\ gpc = "level"
    /\ req_level[LEVELS[levIdx]] = 0
    /\ NextLevel
    /\ UNCHANGED <<pvars, avars, fvars, evars, svars>>
    /\ UNCHANGED <<questions, N, req_level, req_mcq, req_essay, bank, versions,
                   selected, remain_mcq, remain_essay>>

\* one iteration of the level loop with need /= 0
LevelPass ==
    /\ gpc = "level"
    /\ LET lev == LEVELS[levIdx]
           need == req_level[lev]
       IN  /\ need # 0
           /\ \E mcq_pool \in Shuffles(bank[lev]["MCQ"]),
                 essay_pool \in Shuffles(bank[lev]["ESSAY"]) :
                LET take_mcq == TakeMcq(need, remain_mcq, Len(mcq_pool))
                    take_essay == TakeEssay(need, take_mcq, remain_essay,
                                            Len(essay_pool))
                IN  /\ selected' = selected \o SliceTo(mcq_pool, take_mcq)
                                            \o SliceTo(essay_pool, take_essay)
                    /\ remain_mcq' = remain_mcq - take_mcq
                    /\ remain_essay' = remain_essay - take_essay
                    /\ bank' = [bank EXCEPT
                          ![lev] = [typ \in TypeSet |->
                              IF typ = "MCQ"
                              THEN BucketAfterShuffle(bank[lev][typ], mcq_pool)
                              ELSE BucketAfterShuffle(bank[lev][typ], essay_pool)]]
    /\ NextLevel
    /\ UNCHANGED <<pvars, avars, fvars, evars, svars>>
    /\ UNCHANGED <<questions, N, req_level, req_mcq, req_essay, versions>>

\* all_mcq, all_essay, their shuffles and the two extends
Backfill ==
    /\ gpc = "backfill"
    /\ \E all_mcq \in Shuffles(AllOfType(bank, "MCQ")),
          all_essay \in Shuffles(AllOfType(bank, "ESSAY")) :
            selected' = selected \o BackfillTake(all_mcq, remain_mcq)
                                 \o BackfillTake(all_essay, remain_essay)
    /\ gpc' = "shuffle"
    /\ UNCHANGED <<pvars, avars, fvars, evars, svars>>
    /\ UNCHANGED <<questions, N, req_level, req_mcq, req_essay, bank, versions,
                   remain_mcq, remain_essay, levIdx>>

\* random.shuffle(selected); versions.append(selected)
FinishVersion ==
    /\ gpc = "shuffle"
    /\ \E s \in Shuffles(selected) :
            /\ selected' = s
            /\ versions' = Append(versions, s)
    /\ gpc' = "loop"
    /\ UNCHANGED <<pvars, avars, fvars, evars, svars>>
    /\ UNCHANGED <<questions, N, req_level, req_mcq, req_essay, bank,
                   remain_mcq, remain_essay, levIdx>>

\* return versions
ReturnVersions ==
    /\ gpc = "loop"
    /\ Len(versions) >= N
    /\ gpc' = "done"
    /\ UNCHANGED <<pvars, avars, fvars, evars, svars>>
    /\ UNCHANGED <<questions, N, req_level, req_mcq, req_essay, bank, versions,
                   selected, remain_mcq, remain_essay, levIdx>>

\* The lists the generator is called with: every sequence of at most
\* MaxBank records (MaxBankMulti when several versions are asked for) over
\* three level values, one of them unrecognised, and the two types.
BankLevels == {"NB", "VD", "XX"}
RecordKinds == [level : BankLevels, type : TypeSet]

\* no file is being read
ParserIdle ==
    /\ raw = <<>>
    /\ lines = <<>>
    /\ lineIdx = 1
    /\ parsed = <<>>
    /\ origin = <<>>
    /\ ioError = FALSE
    /\ ppc = "idle"

\* no version is being generated
GeneratorIdle ==
    /\ questions = <<>>
    /\ N = 1
    /\ req_level = [lev \in LevelSet |-> 0]
    /\ req_mcq = 0
    /\ req_essay = 0
    /\ bank = EmptyBank
    /\ versions = <<>>
    /\ selected = <<>>
    /\ remain_mcq = 0
    /\ remain_essay = 0
    /\ levIdx = 1
    /\ gpc = "idle"

\* the window as built: nothing loaded, nothing shown
WindowInit ==
    /\ dialogs = <<>>
    /\ loaded_questions = <<>>
    /\ text_display = <<>>
    /\ status = <<"Chua tai file nao">>
    /\ current_filename = <<>>

\* format_question is not being called
FormatterIdle ==
    /\ fq = <<>>
    /\ findex = 1
    /\ show_answers = FALSE
    /\ show_hints = FALSE
    /\ fout = <<>>
    /\ fpc = "idle"

\* nothing is being exported
ExportIdle ==
    /\ exams = <<>>
    /\ DOCX_AVAILABLE = FALSE
    /\ as_docx = FALSE
    /\ saveIdx = 1
    /\ saved_files = <<>>
    /\ disk = <<>>
    /\ result = <<>>
    /\ attempts = <<>>
    /\ epc = "idle"

\* no handler has been called, no version made
SessionIdle ==
    /\ generated_versions = <<>>
    /\ clicks = 0

ParserInit ==
    /\ raw \in SeqsUpTo(InputLines, MaxLines)
    /\ lines = <<>>
    /\ lineIdx = 1
    /\ parsed = <<>>
    /\ origin = <<>>
    /\ ioError = FALSE
    /\ ppc = "open"
    /\ GeneratorIdle
    /\ WindowInit
    /\ FormatterIdle
    /\ ExportIdle
    /\ SessionIdle

ParserNext ==
    \/ OpenFails
    \/ ReadLines
    \/ SkipFreeForm
    \/ ManualLine
    \/ SkipShort
    \/ StructuredLine
    \/ ReturnQuestions
    \/ LoadFileNoData
    \/ LoadFileShow

SpecParser == ParserInit /\ [][ParserNext]_vars

\* The records format_question is called with: both types; no option, two
\* options with gaps, or one option of white space only; with and without
\* an answer; with and without a hint.
OptionChoices ==
    {EmptyOptions,
     <<<<"x">>, <<>>, <<"y">>, <<>>>>,
     <<<<" ">>, <<>>, <<>>, <<>>>>}

RenderRecords ==
    {[id |-> <<"Q", "1">>, level |-> <<"N", "B">>, type |-> t,
      subject |-> <<"S">>, question |-> <<"q">>,
      options |-> o, answer |-> a, hint |-> h] :
        t \in TypeSet, o \in OptionChoices,
        a \in {<<>>, <<"B">>}, h \in {<<>>, <<"h">>}}

FormatInit ==
    /\ fq \in RenderRecords
    /\ findex \in 1..MaxIndex
    /\ show_answers \in BOOLEAN
    /\ show_hints \in BOOLEAN
    /\ fout = <<>>
    /\ fpc = "call"
    /\ ParserIdle
    /\ GeneratorIdle
    /\ WindowInit
    /\ ExportIdle
    /\ SessionIdle

\* one call of format_question
FormatCall ==
    /\ fpc = "call"
    /\ fout' = format_question(fq, findex, show_answers, show_hints)
    /\ fpc' = "returned"
    /\ UNCHANGED <<fq, findex, show_answers, show_hints>>
    /\ UNCHANGED <<pvars, gvars, avars, evars, svars>>

FormatNext == FormatCall

SpecFormat == FormatInit /\ [][FormatNext]_vars

\* The records of the bank the shown and saved versions are drawn from.
ExamRecord(t, qtext, opts, a, h) ==
    [id |-> <<"Q">> \o qtext, level |-> <<"N", "B">>, type |-> t,
     subject |-> <<"S">>, question |-> qtext,
     options |-> opts, answer |-> a, hint |-> h]

ExportBank ==
    <<ExamRecord("MCQ", <<"p">>, <<<<"x">>, <<>>, <<"y">>, <<>>>>, <<"B">>, <<"h">>),
      ExamRecord("MCQ", <<"r">>, EmptyOptions, <<"A">>, <<>>),
      ExamRecord("ESSAY", <<"s">>, EmptyOptions, <<>>, <<"h">>),
      ExamRecord("ESSAY", <<"t">>, EmptyOptions, <<>>, <<>>)>>

\* The versions generate_versions may have returned for that bank: lists of
\* its records in some shuffled order.
ExportVersions ==
    {<<>>,
     <<ExportBank[1]>>,
     <<ExportBank[3], ExportBank[1]>>,
     <<ExportBank[2], ExportBank[3], ExportBank[1]>>,
     <<ExportBank[4], ExportBank[1], ExportBank[3], ExportBank[2]>>}

\* the window after a bank was loaded and generate_versions has returned
ExportInit ==
    /\ exams \in SeqsUpTo(ExportVersions, MaxExams)
    /\ DOCX_AVAILABLE \in BOOLEAN
    /\ as_docx = FALSE
    /\ saveIdx = 1
    /\ saved_files = <<>>
    /\ disk = <<>>
    /\ result = <<>>
    /\ attempts = <<>>
    /\ epc = "generated"
    /\ dialogs = <<>>
    /\ loaded_questions = ExportBank
    /\ text_display = LoadedText(ExportBank)
    /\ status = <<"Da tai ">> \o Decimal(Len(ExportBank)) \o <<" cau hoi">>
    /\ current_filename = BankName
    /\ ParserIdle
    /\ GeneratorIdle
    /\ FormatterIdle
    /\ generated_versions = exams
    /\ clicks = 0

ExportNext ==
    \/ ShowVersions
    \/ EnterSaveToDirectory
    \/ MakeDirsFails
    \/ WriteExamOk
    \/ WriteExamFails
    \/ ReturnSaved
    \/ SaveCombinedOk
    \/ SaveCombinedFails

SpecExport == ExportInit /\ [][ExportNext]_vars

\* The per-level quotas of a call: 0 or 1 at every level, or 2 at one of
\* the levels the lists have records of.
LevelQuotas ==
    [LevelSet -> 0..1] \cup
    {[lev \in LevelSet |-> IF lev = l THEN 2 ELSE 0] : l \in {"NB", "VD"}}

GenInit ==
    /\ N \in {1, 2}
    /\ questions \in SeqsUpTo(RecordKinds, IF N = 1 THEN MaxBank ELSE MaxBankMulti)
    /\ req_level \in LevelQuotas
    /\ req_mcq \in 0..2
    /\ req_essay \in 0..1
    /\ bank = EmptyBank
    /\ versions = <<>>
    /\ selected = <<>>
    /\ remain_mcq = 0
    /\ remain_essay = 0
    /\ levIdx = 1
    /\ gpc = "index"
    /\ ParserIdle
    /\ WindowInit
    /\ FormatterIdle
    /\ ExportIdle
    /\ SessionIdle

GenNext ==
    \/ BuildIndex
    \/ StartVersion
    \/ LevelSkip
    \/ LevelPass
    \/ Backfill
    \/ FinishVersion
    \/ ReturnVersions

SpecGen == GenInit /\ [][GenNext]_vars

-----------------------------------------------------------------------------
(* The session: load_file, generate_exams and save_exams called one after  *)
(* the other from the window, each call taken as one step.                 *)

\* the number of handler calls of a session
MaxClicks == 4

\* bank A: 'QA1|NB|MCQ|S|a|1|2|3|4|A' and 'QA2|VD|ESSAY|S|b'
BankFileA == <<
    <<"Q", "A", "1", "|", "N", "B", "|", "M", "C", "Q", "|", "S", "|", "a",
      "|", "1", "|", "2", "|", "3", "|", "4", "|", "A">>,
    <<"Q", "A", "2", "|", "V", "D", "|", "E", "S", "S", "A", "Y", "|", "S",
      "|", "b">>>>

\* bank B: 'QB1|TH|MCQ|S|c|1|2|3|4|B', the free-form line 'c (x)' and the short line 'QB'
BankFileB == <<
    <<"Q", "B", "1", "|", "T", "H", "|", "M", "C", "Q", "|", "S", "|", "c",
      "|", "1", "|", "2", "|", "3", "|", "4", "|", "B">>,
    <<"c", " ", "(", "x", ")">>,
    <<"Q", "B">>>>

\* a file without a line that yields a record: 'notes'
BankFileNotes == <<
    <<"n", "o", "t", "e", "s">>>>

\* the files the user picks from
SessionFiles == {BankFileA, BankFileB, BankFileNotes}

RECURSIVE ReadRecords(_, _, _)
\* the loop `for line in lines`, from position i on, acc being `questions`
ReadRecords(ls, i, acc) ==
    IF i > Len(ls) THEN acc
    ELSE IF IsFreeForm(ls[i])
         THEN (IF HasParens(ls[i])
               THEN ReadRecords(ls, i + 1,
                        Append(acc, ManualRecord(ls[i], Len(acc))))
               ELSE ReadRecords(ls, i + 1, acc))
         ELSE IF TooFewParts(SplitOn(ls[i], {"|"}))
              THEN ReadRecords(ls, i + 1, acc)
              ELSE ReadRecords(ls, i + 1, Append(acc, StructuredRecord(ls[i])))

\* what read_questions_from_file returns for a file that can be read
read_questions_from_file(file) == ReadRecords(NonBlankStripped(file, 1), 1, <<>>)

\* q['level'] as generate_versions compares it with the keys of its index
LevelKey(level) ==
    IF level = <<"N", "B">> THEN "NB"
    ELSE IF level = <<"T", "H">> THEN "TH"
    ELSE IF level = <<"V", "D">> THEN "VD"
    ELSE IF level = <<"V", "D", "H">> THEN "VDH"
    ELSE "other"

\* the list handed to generate_versions: of every record its level and type
LevelsAndTypes(qs) ==
    [i \in 1..Len(qs) |-> [level |-> LevelKey(qs[i].level), type |-> qs[i].type]]

RECURSIVE FirstPass(_, _, _, _, _, _)
\* the level loop from position i of LEVELS on: every <<selected,
\* remain_mcq, remain_essay>> it can end with
FirstPass(b, rl, i, sel, rm, re) ==
    IF i > Len(LEVELS) THEN {<<sel, rm, re>>}
    ELSE LET lev == LEVELS[i]
             need == rl[lev]
         IN  IF need = 0 THEN FirstPass(b, rl, i + 1, sel, rm, re)
             ELSE UNION {
                    LET take_mcq == TakeMcq(need, rm, Len(mcq_pool))
                        take_essay == TakeEssay(need, take_mcq, re,
                                                Len(essay_pool))
                    IN  FirstPass(b, rl, i + 1,
                            sel \o SliceTo(mcq_pool, take_mcq)
                                \o SliceTo(essay_pool, take_essay),
                            rm - take_mcq, re - take_essay) :
                    mcq_pool \in Shuffles(b[lev]["MCQ"]),
                    essay_pool \in Shuffles(b[lev]["ESSAY"])}

\* one turn of `for _ in range(N)`: every list it can append to versions
OneVersion(b, rl, rm, re) ==
    UNION {UNION {Shuffles(t[1] \o BackfillTake(all_mcq, t[2])
                                \o BackfillTake(all_essay, t[3])) :
                    all_mcq \in Shuffles(AllOfType(b, "MCQ")),
                    all_essay \in Shuffles(AllOfType(b, "ESSAY"))} :
           t \in FirstPass(b, rl, 1, <<>>, rm, re)}

\* every list of versions generate_versions can return; a version is a
\* list of positions in qs
generate_versions(qs, n, rl, rm, re) ==
    [1..n -> OneVersion(BuildBank(qs), rl, rm, re)]

\* the versions as lists of the records themselves
VersionRecords(vs, qs) ==
    [i \in 1..Len(vs) |-> [j \in 1..Len(vs[i]) |-> qs[vs[i][j]]]]

\* The values of the spin boxes at a call of generate_exams: one version of
\* an MCQ and an ESSAY question without level quota, or two versions of one
\* MCQ question, asked for at NB.
SessionSettings ==
    {[N |-> 1, req_level |-> [lev \in LevelSet |-> 0],
      req_mcq |-> 1, req_essay |-> 1],
     [N |-> 2, req_level |-> [lev \in LevelSet |-> IF lev = "NB" THEN 1 ELSE 0],
      req_mcq |-> 1, req_essay |-> 0]}

\* a handler is called: no other call is under way
Click ==
    /\ clicks < MaxClicks
    /\ clicks' = clicks + 1
    /\ UNCHANGED <<pvars, gvars, fvars>>
    /\ UNCHANGED <<exams, DOCX_AVAILABLE, as_docx, saveIdx, saved_files,
                   result, attempts, epc>>

\* load_file: the file cannot be read, the parser reports it and returns
\* [], the handler warns and returns
LoadUnreadable ==
    /\ Click
    /\ dialogs' = dialogs \o <<"showerror: Loi doc file",
                               "showwarning: Khong co du lieu">>
    /\ UNCHANGED <<loaded_questions, text_display, status, current_filename>>
    /\ UNCHANGED <<generated_versions, disk>>

\* load_file: the file holds no record, the handler warns and returns
LoadNoData ==
    /\ Click
    /\ \E file \in SessionFiles : read_questions_from_file(file) = <<>>
    /\ dialogs' = Append(dialogs, "showwarning: Khong co du lieu")
    /\ UNCHANGED <<loaded_questions, text_display, status, current_filename>>
    /\ UNCHANGED <<generated_versions, disk>>

\* load_file: the records of the file become the bank and are shown; the
\* handler assigns nothing else
LoadBank ==
    /\ Click
    /\ \E file \in SessionFiles :
          LET qs == read_questions_from_file(file)
          IN  /\ qs # <<>>
              /\ loaded_questions' = qs
              /\ current_filename' = BankName
              /\ text_display' = LoadedText(qs)
              /\ status' = <<"Da tai ">> \o Decimal(Len(qs)) \o <<" cau hoi">>
    /\ UNCHANGED <<dialogs, generated_versions, disk>>

\* generate_exams: if not loaded_questions: the warning
GenerateNoBank ==
    /\ Click
    /\ loaded_questions = <<>>
    /\ dialogs' = Append(dialogs, "showwarning: Chua co du lieu")
    /\ UNCHANGED <<loaded_questions, text_display, status, current_filename>>
    /\ UNCHANGED <<generated_versions, disk>>

\* generate_exams, the question answered with yes: the versions are made
\* from loaded_questions, kept and shown (answered with no, the handler
\* returns and nothing has changed)
GenerateExams ==
    /\ Click
    /\ loaded_questions # <<>>
    /\ \E set \in SessionSettings :
          \E vs \in generate_versions(LevelsAndTypes(loaded_questions), set.N,
                        set.req_level, set.req_mcq, set.req_essay) :
              LET made == VersionRecords(vs, loaded_questions)
              IN  /\ generated_versions' = made
                  /\ text_display' = ShownText(made)
    /\ status' = <<"Da tao ", "{N}", " ma de">>
    /\ UNCHANGED <<dialogs, loaded_questions, current_filename, disk>>

\* save_exams: the display is blank: the note, nothing is saved
SaveNothingShown ==
    /\ Click
    /\ Strip(text_display) = <<>>
    /\ dialogs' = Append(dialogs, "showinfo: Chua co noi dung")
    /\ UNCHANGED <<loaded_questions, text_display, status, current_filename>>
    /\ UNCHANGED <<generated_versions, disk>>

\* the files save_exams_to_directory writes when the writes of the versions
\* in ok succeed and the others fail
FilesWritten(vs, source_filename, docx, ok, old) ==
    LET paths == {ExamPath(source_filename, i, docx) : i \in ok}
        at(p) == CHOOSE i \in ok : ExamPath(source_filename, i, docx) = p
    IN  [p \in paths \cup DOMAIN old |->
            IF p \in paths
            THEN (IF docx
                  THEN [kind |-> "docx", body |-> ExamDocx(vs[at(p)], Suffix(at(p)))]
                  ELSE [kind |-> "txt", body |-> ExamText(vs[at(p)], Suffix(at(p)))])
            ELSE old[p]]

\* save_exams, one file for each version: self.generated_versions is handed
\* to save_exams_to_directory with the name of the bank loaded last; Word
\* files are given up with a warning when python-docx is missing; a note
\* tells how many files were saved if any was
SavePerVersion ==
    /\ Click
    /\ Strip(text_display) # <<>>
    /\ generated_versions # <<>>
    /\ \E asked \in BOOLEAN, ok \in SUBSET (1..Len(generated_versions)) :
          LET docx == asked /\ DOCX_AVAILABLE
          IN  /\ disk' = FilesWritten(generated_versions, current_filename,
                                      docx, ok, disk)
              /\ dialogs' = dialogs
                    \o (IF asked /\ ~DOCX_AVAILABLE
                        THEN <<"showwarning: Thieu thu vien">> ELSE <<>>)
                    \o (IF ok # {} THEN <<"showinfo: Da luu">> ELSE <<>>)
    /\ UNCHANGED <<loaded_questions, text_display, status, current_filename>>
    /\ UNCHANGED generated_versions

\* save_exams, one file for all versions: self.generated_versions is handed
\* to save_exams_combined, which writes the file and returns its path
SaveAllVersions ==
    /\ Click
    /\ Strip(text_display) # <<>>
    /\ generated_versions # <<>>
    /\ \E fp \in CombinedPaths :
          /\ IsDocxPath(fp) => DOCX_AVAILABLE
          /\ disk' = (fp :>
                        (IF IsDocxPath(fp)
                         THEN [kind |-> "docx",
                               body |-> CombinedDocx(generated_versions)]
                         ELSE [kind |-> "txt",
                               body |-> CombinedText(generated_versions)]))
                     @@ disk
    /\ dialogs' = Append(dialogs, "showinfo: Thanh cong")
    /\ UNCHANGED <<loaded_questions, text_display, status, current_filename>>
    /\ UNCHANGED generated_versions

\* save_exams, no version made yet: the text of the display is written
SaveDisplay ==
    /\ Click
    /\ Strip(text_display) # <<>>
    /\ generated_versions = <<>>
    /\ \E fp \in CombinedPaths :
          disk' = (fp :> [kind |-> "txt", body |-> text_display \o <<"\n">>])
                  @@ disk
    /\ dialogs' = Append(dialogs, "showinfo: Thanh cong")
    /\ UNCHANGED <<loaded_questions, text_display, status, current_filename>>
    /\ UNCHANGED generated_versions

\* save_exams, the one file is not written: save_exams_combined returned
\* None (python-docx missing for a Word path: the warning first) or open
\* raised; the handler reports the failure
SaveOneFileFails ==
    /\ Click
    /\ Strip(text_display) # <<>>
    /\ \E fp \in CombinedPaths :
          dialogs' = dialogs
              \o (IF generated_versions # <<>> /\ IsDocxPath(fp)
                     /\ ~DOCX_AVAILABLE
                  THEN <<"showwarning: Thieu thu vien">> ELSE <<>>)
              \o (IF generated_versions = <<>>
                  THEN <<"showerror: Loi">> ELSE <<>>)
              \o <<"showerror: That bai">>
    /\ UNCHANGED <<loaded_questions, text_display, status, current_filename>>
    /\ UNCHANGED <<generated_versions, disk>>

\* the window as built, python-docx installed or not
SessionInit ==
    /\ WindowInit
    /\ SessionIdle
    /\ ParserIdle
    /\ GeneratorIdle
    /\ FormatterIdle
    /\ exams = <<>>
    /\ DOCX_AVAILABLE \in BOOLEAN
    /\ as_docx = FALSE
    /\ saveIdx = 1
    /\ saved_files = <<>>
    /\ disk = <<>>
    /\ result = <<>>
    /\ attempts = <<>>
    /\ epc = "idle"

SessionNext ==
    \/ LoadUnreadable
    \/ LoadNoData
    \/ LoadBank
    \/ GenerateNoBank
    \/ GenerateExams
    \/ SaveNothingShown
    \/ SavePerVersion
    \/ SaveAllVersions
    \/ SaveDisplay
    \/ SaveOneFileFails

SpecSession == SessionInit /\ [][SessionNext]_vars

-----------------------------------------------------------------------------
(* Properties of generate_versions.                                       *)

NoRepeat(s) == \A i, j \in 1..Len(s) : i # j => s[i] # s[j]

\* the entries of a list of positions whose question has the type,
\* repetitions kept
OfType(sel, typ) == SelectSeq(sel, LAMBDA i : questions[i].type = typ)

\* the positions of the list whose record has the type
BankOfType(typ) == {i \in 1..Len(questions) : questions[i].type = typ}

LevelQuotaSum ==
    req_level["NB"] + req_level["TH"] + req_level["VD"] + req_level["VDH"]

NoLevelQuota == \A lev \in LevelSet : req_level[lev] = 0

\* C1: no question occurs more than once inside a version, finished or
\* under construction (first pass and backfill together).
C1_NoRepeatInVersion ==
    /\ \A v \in 1..Len(versions) : NoRepeat(versions[v])
    /\ gpc \in {"level", "backfill", "shuffle"} => NoRepeat(selected)

\* C2: a version never holds more MCQ than req_mcq nor more ESSAY than
\* req_essay, and the two remaining counters never go below zero.
C2_TypeQuotaIsCeiling ==
    /\ \A v \in 1..Len(versions) :
          /\ Len(OfType(versions[v], "MCQ")) <= req_mcq
          /\ Len(OfType(versions[v], "ESSAY")) <= req_essay
    /\ gpc \in {"level", "backfill", "shuffle"} =>
          /\ Len(OfType(selected, "MCQ")) <= req_mcq
          /\ Len(OfType(selected, "ESSAY")) <= req_essay
    /\ remain_mcq >= 0
    /\ remain_essay >= 0

\* a finished call whose per-level quotas sum to more than the two type
\* quotas, with a version filled up to both type quotas
C2_Witness ==
    /\ gpc = "done"
    /\ LevelQuotaSum > req_mcq + req_essay
    /\ req_mcq > 0 /\ req_essay > 0
    /\ Len(OfType(versions[1], "MCQ")) = req_mcq
    /\ Len(OfType(versions[1], "ESSAY")) = req_essay

\* C3: with fewer MCQ in the bank than req_mcq, every returned version
\* holds each MCQ of the bank, and as many MCQ entries as the bank has.
C3_UnderfillTakesEachMcqOnce ==
    (gpc = "done" /\ Cardinality(BankOfType("MCQ")) < req_mcq) =>
        \A v \in 1..Len(versions) :
            /\ BankOfType("MCQ") \subseteq Range(versions[v])
            /\ Len(OfType(versions[v], "MCQ")) = Cardinality(BankOfType("MCQ"))

\* C4: with no per-level quota and a bank that covers both type quotas,
\* the call returns N versions, each of exactly req_mcq MCQ and req_essay
\* ESSAY, all of them questions of the list and none taken twice.
C4_BackfillAloneFillsExactly ==
    (/\ gpc = "done"
     /\ NoLevelQuota
     /\ Cardinality(BankOfType("MCQ")) >= req_mcq
     /\ Cardinality(BankOfType("ESSAY")) >= req_essay) =>
        /\ Len(versions) = N
        /\ \A v \in 1..Len(versions) :
              /\ Len(OfType(versions[v], "MCQ")) = req_mcq
              /\ Len(OfType(versions[v], "ESSAY")) = req_essay
              /\ Range(versions[v]) \subseteq 1..Len(questions)
              /\ NoRepeat(versions[v])

\* the call of the specification's example: 2 MCQ and 1 ESSAY, no level quota
C4_Witness ==
    /\ gpc = "done"
    /\ NoLevelQuota
    /\ req_mcq = 2 /\ req_essay = 1
    /\ Cardinality(BankOfType("MCQ")) >= 2
    /\ Cardinality(BankOfType("ESSAY")) >= 1
    /\ Len(versions) = N
    /\ Len(versions[1]) = 3

\* the positions of the records a bucket has to hold
BucketMembers(lev, typ) ==
    {i \in 1..Len(questions) :
        /\ questions[i].type = typ
        /\ \/ questions[i].level = lev
           \/ (lev = "NB" /\ questions[i].level \notin LevelSet)}

\* C15: once built (at the head of the version loop), the index holds all
\* 8 (level, type) buckets; every record is in the bucket of its own level
\* and type, one of unrecognised level in the NB bucket of its type; a
\* bucket keeps the order of the input and no record is lost or held twice.
C15_IndexPartitionsBank ==
    gpc = "loop" =>
        /\ DOMAIN bank = {"NB", "TH", "VD", "VDH"}
        /\ \A lev \in DOMAIN bank :
              /\ DOMAIN bank[lev] = {"MCQ", "ESSAY"}
              /\ \A typ \in DOMAIN bank[lev] :
                    LET b == bank[lev][typ]
                    IN  /\ \A i, j \in 1..Len(b) : i < j => b[i] < b[j]
                        /\ {b[i] : i \in 1..Len(b)} = BucketMembers(lev, typ)

\* an index built from three MCQ records, two of level NB around one of an
\* unrecognised level: all three sit in the NB bucket in input order
C15_Witness ==
    /\ gpc = "loop"
    /\ Len(questions) = 3
    /\ questions[1].level = "NB"
    /\ questions[2].level = "XX"
    /\ questions[3].level = "NB"
    /\ \A i \in 1..3 : questions[i].type = "MCQ"
    /\ bank["NB"]["MCQ"] = <<1, 2, 3>>

\* the least number of a set of integers that is not empty
Least(S) == CHOOSE x \in S : \A y \in S : x <= y

\* how many records of the sequence sel sit in the bucket b
CountIn(sel, b) ==
    Cardinality({i \in 1..Len(sel) : \E j \in 1..Len(b) : b[j] = sel[i]})

\* C20: the first pass walks the levels in the order NB, TH, VD, VDH; at a
\* level with need > 0 it appends take_mcq = min(need, remain_mcq, size of
\* the level's MCQ pool) records of that pool and then take_essay =
\* min(need - take_mcq, remain_essay, size of the level's ESSAY pool)
\* records of that pool, and lowers the two counters by the takes. So it
\* takes at most need records of the level, MCQ first, and when the MCQ
\* pool and remain_mcq are both at least need, at least need records of the
\* level are selected; what is selected stays in the version.
C20_FirstPassTakes ==
    [][/\ (gpc = "level" /\ req_level[<<"NB", "TH", "VD", "VDH">>[levIdx]] > 0) =>
            LET lev == <<"NB", "TH", "VD", "VDH">>[levIdx]
                need == req_level[lev]
                mcqs == bank[lev]["MCQ"]
                essays == bank[lev]["ESSAY"]
                take_mcq == Least({need, remain_mcq, Len(mcqs)})
                take_essay == Least({need - take_mcq, remain_essay, Len(essays)})
                added == SubSeq(selected', Len(selected) + 1, Len(selected'))
            IN  /\ SubSeq(selected', 1, Len(selected)) = selected
                /\ Len(added) = take_mcq + take_essay
                /\ Len(added) <= need
                /\ \A i, j \in 1..Len(added) : i # j => added[i] # added[j]
                /\ \A i \in 1..Len(added) :
                      IF i <= take_mcq
                      THEN \E j \in 1..Len(mcqs) : mcqs[j] = added[i]
                      ELSE \E j \in 1..Len(essays) : essays[j] = added[i]
                /\ remain_mcq' = remain_mcq - take_mcq
                /\ remain_essay' = remain_essay - take_essay
                /\ (Len(mcqs) >= need /\ remain_mcq >= need) =>
                      CountIn(selected', mcqs) >= need
       /\ gpc = "level" => levIdx' = levIdx + 1 /\ (gpc' = "level" <=> levIdx < 4)
       /\ gpc = "loop" /\ gpc' = "level" => levIdx' = 1 /\ selected' = <<>>
       /\ gpc \in {"level", "backfill"} =>
            SubSeq(selected', 1, Len(selected)) = selected
       /\ gpc = "shuffle" =>
            /\ versions'[Len(versions')] = selected'
            /\ Len(selected') = Len(selected)
            /\ \A i \in 1..Len(selected) :
                  \E j \in 1..Len(selected) : selected'[j] = selected[i]
            /\ \A i \in 1..Len(selected) :
                  \E j \in 1..Len(selected) : selected[j] = selected'[i]
      ]_vars

\* the pass over NB is over with need 2, one MCQ record and one ESSAY
\* record in the NB pools: the MCQ record was taken first, then the ESSAY
C20_Witness ==
    /\ gpc = "level"
    /\ levIdx = 2
    /\ req_level["NB"] = 2
    /\ Len(bank["NB"]["MCQ"]) = 1
    /\ Len(bank["NB"]["ESSAY"]) = 1
    /\ selected = bank["NB"]["MCQ"] \o bank["NB"]["ESSAY"]
    /\ remain_mcq = req_mcq - 1
    /\ remain_essay = 0

\* C21: generate_versions leaves its input as it found it. No step changes
\* the list `questions`, and once the index is built no step of any of the
\* N iterations changes a bucket, in content or in order: the shuffles act
\* on copies. So every iteration draws from the whole bank.
C21_InputLeftUnchanged ==
    [][/\ questions' = questions
       /\ gpc \in {"loop", "level", "backfill", "shuffle"} => bank' = bank
      ]_vars

\* the second of two versions is under construction from a bucket of two
\* records: the first version holds them in the other order, the bucket
\* is in the order of the list, and both records were picked again
C21_Witness ==
    /\ gpc = "shuffle"
    /\ N = 2
    /\ Len(versions) = 1
    /\ bank["NB"]["MCQ"] = <<1, 2>>
    /\ versions[1] = <<2, 1>>
    /\ Range(selected) = {1, 2}

-----------------------------------------------------------------------------
(* Properties of read_questions_from_file.                                 *)

LevelTexts == {<<"N", "B">>, <<"T", "H">>, <<"V", "D">>, <<"V", "D", "H">>}

\* the line a record of parsed was read from
OriginLine(k) == lines[origin[k]]

\* the number of '|'-separated fields of a line
FieldCount(l) == Len(SplitOn(l, {"|"}))

\* the line went through the free-form branch and had both parentheses
LooksManual(l) ==
    /\ l[1] # "Q"
    /\ \A i \in 1..Len(l) : l[i] # "|"
    /\ \E i \in 1..Len(l) : l[i] = "("
    /\ \E i \in 1..Len(l) : l[i] = ")"

\* pat occurs in s when letter case is ignored (pat in capitals)
ContainsNoCase(s, pat) ==
    \E k \in 0..(Len(s) - Len(pat)) :
        \A i \in 1..Len(pat) : UpperChar(s[k + i]) = pat[i]

\* C5: every record the parser returns has a level of the closed set
\* NB, TH, VD, VDH.
C5_ParsedLevelInClosedSet ==
    \A k \in 1..Len(parsed) : parsed[k].level \in LevelTexts

\* C6 as stated: no record comes from a line of fewer than 5 fields.
C6_ShortLineNeverParsed ==
    \A k \in 1..Len(parsed) : FieldCount(OriginLine(k)) >= 5

\* C6 as amended: a line of fewer than 5 fields gives a record exactly when
\* it is a manual line (no leading Q, no separator, both parentheses); a
\* short line that starts with Q or holds a separator gives none.
C6_ShortLineParsedOnlyAsManual ==
    \A j \in 1..Len(lines) :
        (j < lineIdx /\ FieldCount(lines[j]) < 5) =>
            ((\E k \in 1..Len(origin) : origin[k] = j) <=> LooksManual(lines[j]))

\* a finished parse that dropped a short line with a separator and read a
\* manual line
C6_Witness ==
    /\ ppc = "done"
    /\ \E j \in 1..Len(lines) :
          /\ FieldCount(lines[j]) \in 2..4
          /\ \A k \in 1..Len(origin) : origin[k] # j
    /\ \E k \in 1..Len(parsed) : FieldCount(OriginLine(k)) = 1

\* C7: every record the parser returns has an id that is not empty.
C7_ParsedIdNotEmpty ==
    \A k \in 1..Len(parsed) : parsed[k].id # <<>>

\* C8: the ids of the records of one parse are pairwise distinct.
C8_ParsedIdsDistinct ==
    \A i, j \in 1..Len(parsed) : i # j => parsed[i].id # parsed[j].id

\* C9: every record the parser returns has exactly 4 option slots.
C9_OptionsHaveFourSlots ==
    \A k \in 1..Len(parsed) :
        /\ DOMAIN parsed[k].options = 1..4
        /\ Len(parsed[k].options) = 4

\* a finished parse with an ESSAY record and an MCQ record whose combined
\* field split into more than 4 candidates
C9_Witness ==
    /\ ppc = "done"
    /\ \E k \in 1..Len(parsed) : parsed[k].type = "ESSAY"
    /\ \E k \in 1..Len(parsed) :
          /\ parsed[k].type = "MCQ"
          /\ FieldCount(OriginLine(k)) = 7
          /\ Len(SplitOn(SplitOn(OriginLine(k), {"|"})[6], {";", ","})) > 4
          /\ \A i \in 1..4 : parsed[k].options[i] # <<>>

\* C10: the record of a structured line is ESSAY exactly when its raw type
\* field holds ESSAY or TL in any letter case, and MCQ otherwise; every
\* record is MCQ or ESSAY.
C10_TypeFromEssayMarker ==
    \A k \in 1..Len(parsed) :
        /\ parsed[k].type \in {"MCQ", "ESSAY"}
        /\ ~LooksManual(OriginLine(k)) =>
              LET field == SplitOn(OriginLine(k), {"|"})[3]
                  marked == \/ ContainsNoCase(field, <<"E", "S", "S", "A", "Y">>)
                            \/ ContainsNoCase(field, <<"T", "L">>)
              IN  parsed[k].type = (IF marked THEN "ESSAY" ELSE "MCQ")

\* a finished parse with a record of an empty raw type and a record whose
\* raw type is the short form in small letters
C10_Witness ==
    /\ ppc = "done"
    /\ \E k \in 1..Len(parsed) :
          /\ FieldCount(OriginLine(k)) >= 5
          /\ SplitOn(OriginLine(k), {"|"})[3] = <<>>
          /\ parsed[k].type = "MCQ"
    /\ \E k \in 1..Len(parsed) :
          /\ FieldCount(OriginLine(k)) >= 5
          /\ SplitOn(OriginLine(k), {"|"})[3] = <<"t", "l">>
          /\ parsed[k].type = "ESSAY"

\* the parts after the fifth field of the line a record was read from
OriginTail(k) == SliceFrom(SplitOn(OriginLine(k), {"|"}), 5)

\* the record came from a structured line and is a multiple-choice one
IsStructuredMcq(k) == ~LooksManual(OriginLine(k)) /\ parsed[k].type = "MCQ"

\* what the explicit four-field form gives for a tail: the four cleaned
\* options, the trimmed 5th part, the parts after the 5th joined by spaces
IsExplicitRecord(q, tail) ==
    /\ q.options = [i \in 1..4 |-> clean_opt(tail[i])]
    /\ q.answer = (IF Len(tail) >= 5 THEN Strip(tail[5]) ELSE <<>>)
    /\ q.hint = Strip(Join(SubSeq(tail, 6, Len(tail)), <<" ">>))

\* C11 as stated: an MCQ structured line whose tail has at least 4 parts,
\* any of them non-empty, is read by the explicit four-field form.
C11_ExplicitWhenAnyPart ==
    \A k \in 1..Len(parsed) :
        LET tail == OriginTail(k)
        IN  (/\ IsStructuredMcq(k)
             /\ Len(tail) >= 4
             /\ \E i \in 1..Len(tail) : tail[i] # <<>>)
            => IsExplicitRecord(parsed[k], tail)

\* C11 as amended, of the list returned: an MCQ structured line whose tail
\* has at least 4 parts, any of the first four non-empty, is read by the
\* explicit four-field form: option i is the cleaned i-th tail part, the
\* answer the trimmed 5th part when present and not blank, the hint the
\* trimmed space-join of the parts after the 5th.
C11_ExplicitWhenFirstFour ==
    ppc = "done" => \A k \in 1..Len(parsed) :
        LET tail == OriginTail(k)
        IN  (/\ IsStructuredMcq(k)
             /\ Len(tail) >= 4
             /\ \E i \in 1..4 : tail[i] # <<>>)
            => IsExplicitRecord(parsed[k], tail)

\* a finished parse with a record read by the explicit form that has an
\* answer and a hint of two parts, and a record of exactly four tail parts
C11_Witness ==
    /\ ppc = "done"
    /\ \E k \in 1..Len(parsed) :
          /\ IsStructuredMcq(k)
          /\ Len(OriginTail(k)) = 7
          /\ OriginTail(k)[1] # <<>>
          /\ parsed[k].answer = <<"c">>
          /\ parsed[k].hint = <<"h", "1", " ", "h", "2">>
    /\ \E k \in 1..Len(parsed) :
          /\ IsStructuredMcq(k)
          /\ Len(OriginTail(k)) = 4
          /\ OriginTail(k)[1] # <<>>
          /\ parsed[k].options[4] = <<"d">>
          /\ parsed[k].answer = <<>>

\* the line was read by the combined form: an MCQ structured line with a
\* tail that the explicit form does not take
IsCombinedCase(k) ==
    /\ IsStructuredMcq(k)
    /\ OriginTail(k) # <<>>
    /\ ~(Len(OriginTail(k)) >= 4 /\ \E i \in 1..4 : OriginTail(k)[i] # <<>>)

\* the answer the stated precedence gives: the last token when it is a bare
\* letter, else the first bare-letter token, else the letter ending the line
PrecedenceAnswer(tail, line) ==
    IF IsAnswerLetter(Strip(tail[Len(tail)])) THEN Upper(Strip(tail[Len(tail)]))
    ELSE IF \E i \in 1..Len(tail) : IsAnswerLetter(Strip(tail[i]))
         THEN Upper(FirstLetterToken(tail))
         ELSE Upper(LineEndLetter(line))

\* C12: in the combined form the answer is found by a fixed precedence: the
\* last tail token when it is one letter A-D, else the first tail token that
\* is a bare letter, else the letter at the end of the line; the last rule
\* is used only when the first two found nothing.
C12_AnswerByPrecedence ==
    \A k \in 1..Len(parsed) :
        IsCombinedCase(k) =>
            parsed[k].answer = PrecedenceAnswer(OriginTail(k), OriginLine(k))

\* the candidates the option source of a combined line splits into
CandidateCount(tail) == Len(split_combined_options(OptSource(tail)))

\* C13: in the combined form the hint holds only tail content that was not
\* consumed as an option or as the answer: when every tail part was
\* consumed (no candidate dropped) the hint is empty.
C13_HintOnlyFromLeftover ==
    \A k \in 1..Len(parsed) :
        (IsCombinedCase(k) /\ CandidateCount(OriginTail(k)) <= 4) =>
            parsed[k].hint = <<>>

\* one layer of braces or of parentheses removed when it wraps the token
Unwrapped(s) ==
    IF Len(s) >= 2 /\ \/ (s[1] = "{" /\ s[Len(s)] = "}")
                      \/ (s[1] = "(" /\ s[Len(s)] = ")")
    THEN Strip(SubSeq(s, 2, Len(s) - 1))
    ELSE s

\* a leading label removed: a letter A-D, then a period or a ")"
Unlabelled(s) ==
    IF s # <<>> /\ s[1] \in OptionLetters
    THEN LET r == LStripSet(Tail(s), {" ", "\t"})
         IN  IF r # <<>> /\ r[1] \in {".", ")"}
             THEN LStripSet(Tail(r), {" ", "\t"})
             ELSE s
    ELSE s

\* C14: option text is cleaned by trimming, removing one layer of braces or
\* parentheses that wraps the token, removing a leading label (a letter A-D
\* then a period or a closing parenthesis), and trimming again.
C14_OptionTextCleaned ==
    \A k \in 1..Len(parsed) :
        (IsStructuredMcq(k) /\ Len(OriginTail(k)) >= 4
            /\ \E i \in 1..4 : OriginTail(k)[i] # <<>>) =>
            \A i \in 1..4 :
                parsed[k].options[i] = Strip(Unlabelled(Unwrapped(Strip(OriginTail(k)[i]))))

\* C16: the caller can tell an unreadable file from an empty bank: what
\* read_questions_from_file returns after a read failure is not what it
\* returns for a bank without records (the empty list), and load_file
\* gives its "no data" warning only for a file that was read.
C16_ReadFailureToldFromEmptyBank ==
    /\ (ppc = "done" /\ ioError) => parsed # <<>>
    /\ (ppc = "returned" /\ ioError) =>
          \A k \in 1..Len(dialogs) : dialogs[k] # "showwarning: Khong co du lieu"

-----------------------------------------------------------------------------
(* Properties of format_question.                                          *)

\* the lines of a string
TextLines(s) == SplitOn(s, {"\n"})

\* the text begins with the given elements
BeginsWith(s, pre) ==
    Len(s) >= Len(pre) /\ \A i \in 1..Len(pre) : s[i] = pre[i]

\* C18: format_question called with show_answers false returns no answer
\* line, whatever the record, and called with show_hints false it returns
\* no hint line.
C18_FlagsGateAnswerAndHint ==
    fpc = "returned" =>
        \A k \in 1..Len(TextLines(fout)) :
            LET line == TextLines(fout)[k]
            IN  /\ ~show_answers =>
                      ~BeginsWith(line, <<" ", " ", "D^", "a^", "p", " ", "a^", "n", ":">>)
                /\ ~show_hints =>
                      ~BeginsWith(line, <<" ", " ", "G", "o~", "i", " ", "y^", ":">>)

\* a call with both flags false for an MCQ record that has options, an
\* answer and a hint: the head and the two option lines are returned
C18_Witness ==
    /\ fpc = "returned"
    /\ ~show_answers
    /\ ~show_hints
    /\ fq.type = "MCQ"
    /\ fq.options[3] = <<"y">>
    /\ fq.answer # <<>>
    /\ fq.hint # <<>>
    /\ Len(TextLines(fout)) = 3

-----------------------------------------------------------------------------
(* Properties of the display and of the export.                            *)

\* the i-th path of an export of text files for the bank bank.txt
TextPathOf(i) ==
    <<"{target_dir}", "/", "b", "a", "n", "k", "_", "d", "e", "_">>
    \o <<<<"A", "B", "C", "D", "E", "F">>[i]>>
    \o <<"_", "{timestamp}", ".", "t", "x", "t">>

\* the i-th path of an export of Word files
DocxPathOf(i) ==
    <<"{target_dir}", "/", "b", "a", "n", "k", "_", "d", "e", "_">>
    \o <<<<"A", "B", "C", "D", "E", "F">>[i]>>
    \o <<"_", "{timestamp}", ".", "d", "o", "c", "x">>

\* C17: in save_exams_to_directory a failed write of one version does not
\* end the export: the versions are attempted one after the other in
\* order, each at its own path, all of them by the time the list is
\* returned; the list holds the paths of the writes that succeeded, in
\* order, and no path of a write that failed.
C17_FailedWriteSkipsOnlyItsPath ==
    epc \in {"dirloop", "saved"} =>
        /\ Len(attempts) = saveIdx - 1
        /\ epc = "saved" => Len(attempts) = Len(exams)
        /\ \A i \in 1..Len(attempts) :
              /\ attempts[i].path = (IF as_docx THEN DocxPathOf(i) ELSE TextPathOf(i))
              /\ attempts[i].ok <=> attempts[i].path \in DOMAIN disk
        /\ \A i \in 1..Len(attempts) :
              attempts[i].ok <=>
                  \E k \in 1..Len(saved_files) : saved_files[k] = attempts[i].path
        /\ \A j, k \in 1..Len(saved_files) :
              j < k => \E a, b \in 1..Len(attempts) :
                          /\ a < b
                          /\ attempts[a].path = saved_files[j]
                          /\ attempts[b].path = saved_files[k]

\* an export of two text files returned: the first write failed, the
\* second was made all the same and its path alone is in the list
C17_Witness ==
    /\ epc = "saved"
    /\ ~as_docx
    /\ Len(exams) = 2
    /\ ~attempts[1].ok
    /\ attempts[2].ok
    /\ saved_files = <<TextPathOf(2)>>
    /\ DOMAIN disk = {TextPathOf(2)}

\* the positions of a text where a line that is a question head begins
HeadStarts(text) ==
    {i \in 1..(Len(text) - 3) :
        /\ i = 1 \/ text[i - 1] = "\n"
        /\ SubSeq(text, i, i + 3) = <<"C", "a~", "u", " ">>}

\* the line of a text that begins at position i
LineAt(text, i) ==
    LET ends == {j \in i..Len(text) : text[j] = "\n"}
    IN  IF ends = {} THEN SubSeq(text, i, Len(text))
        ELSE SubSeq(text, i, (CHOOSE j \in ends : \A k \in ends : j <= k) - 1)

\* the question heads of a text, in order
Heads(text) ==
    LET starts == HeadStarts(text)
    IN  [n \in 1..Cardinality(starts) |->
            LineAt(text, CHOOSE i \in starts :
                            Cardinality({j \in starts : j < i}) = n - 1)]

\* the heads a version is to be rendered with: MCQ records first, ESSAY
\* records after them, each kind in stored order, numbered from 1
RenderedHeads(ver) ==
    LET ord == SelectSeq(ver, LAMBDA q : q.type = "MCQ") \o
               SelectSeq(ver, LAMBDA q : q.type = "ESSAY")
    IN  [k \in 1..Len(ord) |->
            <<"C", "a~", "u", " ">> \o Decimal(k) \o <<":", " ", "[">>
            \o ord[k].level \o <<"]", " ">> \o ord[k].question]

RECURSIVE AllRenderedHeads(_, _)
AllRenderedHeads(vs, i) ==
    IF i > Len(vs) THEN <<>>
    ELSE RenderedHeads(vs[i]) \o AllRenderedHeads(vs, i + 1)

\* the display after generation renders every version MCQ first
PreviewMcqFirst ==
    epc \notin {"idle", "generated"} =>
        Heads(text_display) = AllRenderedHeads(exams, 1)

\* every text file of one version renders it MCQ first
ExamFilesMcqFirst ==
    \A i \in 1..Len(exams) :
        TextPathOf(i) \in DOMAIN disk =>
            Heads(disk[TextPathOf(i)].body) = RenderedHeads(exams[i])

\* the combined text file renders every version MCQ first
CombinedFileMcqFirst ==
    \A p \in DOMAIN disk :
        (p \in CombinedPaths /\ disk[p].kind = "txt") =>
            Heads(disk[p].body) = AllRenderedHeads(exams, 1)

\* C19: every rendering of a stored version (the display after generation,
\* the text file of one version, the combined text file) lists the MCQ
\* records before the ESSAY records, each kind in stored order, and numbers
\* the questions 1..k in that order.
C19_RenderedMcqFirstNumbered ==
    /\ PreviewMcqFirst
    /\ ExamFilesMcqFirst
    /\ CombinedFileMcqFirst

-----------------------------------------------------------------------------
(* Properties of the session.                                              *)

\* the question heads of a saved file: the head lines of a text file, the
\* head paragraphs of a Word file
FileHeads(f) ==
    IF f.kind = "txt" THEN Range(Heads(f.body))
    ELSE {para \in Range(f.body) :
            /\ Len(para) >= 4
            /\ SubSeq(para, 1, 4) = <<"C", "a~", "u", " ">>}

\* h is the head of the record q under some number
IsHeadOf(h, q) ==
    \E k \in 1..Len(h) :
        h = <<"C", "a~", "u", " ">> \o Decimal(k) \o <<":", " ", "[">>
            \o q.level \o <<"]", " ">> \o q.question

\* the files a step writes
FilesSaved == {p \in DOMAIN disk' : p \notin DOMAIN disk \/ disk'[p] # disk[p]}

\* every question of every file a step writes is a question of the bank
\* that is loaded
SaveWritesLoadedBank ==
    \A p \in FilesSaved :
        \A h \in FileHeads(disk'[p]) :
            \E i \in 1..Len(loaded_questions) : IsHeadOf(h, loaded_questions[i])

\* a step that replaces the bank leaves no version of the bank before
LoadDiscardsVersions ==
    loaded_questions' # loaded_questions => generated_versions' = <<>>

\* C22: over any sequence of load-file, generate and save calls, what a save
\* writes was generated from the bank loaded at the time of the save: a
\* load that replaces the bank discards the versions generated before it,
\* and no file written holds a question that is not in the loaded bank.
C22_SaveExportsLoadedBank ==
    [][SaveWritesLoadedBank /\ LoadDiscardsVersions]_vars

=============================================================================
